---- MODULE Spec2Model ----
(***************************************************************************)
(* Model of the chatbot-kb-monitor repository: the scan / classify / retry *)
(* / report pipeline of its two entry points (monitor_actions.py and       *)
(* src/main.py with KBMonitor.check_status) and the generic RetryHandler   *)
(* policy (src/automation/retry_handler.py).                               *)
(*                                                                         *)
(* Text is modelled as a sequence of one-character strings, so substring   *)
(* tests, strip and split are computed as Python computes them.  A code    *)
(* point outside ASCII is written as one element "U+xxxx".                 *)
(***************************************************************************)
EXTENDS Integers, Sequences, FiniteSets, TLC

(***************************************************************************)
(* Python string primitives                                                *)
(***************************************************************************)

\* characters str.strip() and str.split() treat as whitespace
Whitespace == {" ", "\t", "\n"}

\* `pat in text`: pat occurs in text as a contiguous, case-sensitive substring
Contains(text, pat) ==
    \E i \in 0..(Len(text) - Len(pat)) :
        \A j \in 1..Len(pat) : text[i + j] = pat[j]

\* str.lower() on one character
LowerChar(c) ==
    CASE c = "A" -> "a" [] c = "B" -> "b" [] c = "C" -> "c" [] c = "D" -> "d"
      [] c = "E" -> "e" [] c = "F" -> "f" [] c = "G" -> "g" [] c = "H" -> "h"
      [] c = "I" -> "i" [] c = "J" -> "j" [] c = "K" -> "k" [] c = "L" -> "l"
      [] c = "M" -> "m" [] c = "N" -> "n" [] c = "O" -> "o" [] c = "P" -> "p"
      [] c = "Q" -> "q" [] c = "R" -> "r" [] c = "S" -> "s" [] c = "T" -> "t"
      [] c = "U" -> "u" [] c = "V" -> "v" [] c = "W" -> "w" [] c = "X" -> "x"
      [] c = "Y" -> "y" [] c = "Z" -> "z" [] OTHER -> c

\* str.lower()
Lower(text) == [i \in 1..Len(text) |-> LowerChar(text[i])]

\* str.strip(): drop leading and trailing whitespace
Strip(text) ==
    LET keep == {i \in 1..Len(text) : text[i] \notin Whitespace}
    IN  IF keep = {} THEN <<>>
        ELSE LET lo == CHOOSE i \in keep : \A k \in keep : i <= k
                 hi == CHOOSE i \in keep : \A k \in keep : i >= k
             IN  SubSeq(text, lo, hi)

\* str.split(sep) for a one-character separator: the pieces between
\* separators, empty pieces kept
RECURSIVE SplitOn(_, _)
SplitOn(text, sep) ==
    LET hits == {i \in 1..Len(text) : text[i] = sep}
    IN  IF hits = {} THEN <<text>>
        ELSE LET p == CHOOSE i \in hits : \A k \in hits : i <= k
             IN  <<SubSeq(text, 1, p - 1)>>
                   \o SplitOn(SubSeq(text, p + 1, Len(text)), sep)

\* str.split() without argument: maximal runs of non-whitespace
RECURSIVE SplitWords(_)
SplitWords(text) ==
    LET s == Strip(text)
        ws == {i \in 1..Len(s) : s[i] \in Whitespace}
    IN  IF s = <<>> THEN <<>>
        ELSE IF ws = {} THEN <<s>>
        ELSE LET p == CHOOSE i \in ws : \A k \in ws : i <= k
             IN  <<SubSeq(s, 1, p - 1)>> \o SplitWords(SubSeq(s, p + 1, Len(s)))

\* any(marker in text for marker in markers), markers an ordered list
ContainsAny(text, markers) ==
    \E m \in 1..Len(markers) : Contains(text, markers[m])

\* the first marker of the list found in text (the loop breaks at it)
FirstMarker(text, markers) ==
    markers[CHOOSE m \in 1..Len(markers) :
                /\ Contains(text, markers[m])
                /\ \A k \in 1..(m - 1) : ~Contains(text, markers[k])]

\* str(i) for a one-digit index
Digits(i) == <<ToString(i)>>

(***************************************************************************)
(* RetryHandler: error classification and retry policy                     *)
(***************************************************************************)

\* bounds of the policy specification
MaxConfigAttempts == 3
MaxAttemptArg == 4

VARIABLES
    handler,    \* RetryHandler fields: max_attempts, backoff_base, initial_delay
    call        \* the last call made on the handler: its arguments and return

\* RetryHandler.PERMANENT_ERROR_PATTERNS, in list order
PERMANENT_ERROR_PATTERNS == <<
    <<"a", "u", "t", "h", "e", "n", "t", "i", "c", "a", "t", "i", "o", "n">>,
    <<"a", "u", "t", "h">>,
    <<"p", "e", "r", "m", "i", "s", "s", "i", "o", "n">>,
    <<"f", "o", "r", "b", "i", "d", "d", "e", "n">>,
    <<"4", "0", "1">>,
    <<"4", "0", "3">>,
    <<"n", "o", "t", " ", "f", "o", "u", "n", "d">>,
    <<"4", "0", "4">>,
    <<"i", "n", "v", "a", "l", "i", "d">> >>

\* RetryHandler.TEMPORARY_ERROR_PATTERNS, in list order
TEMPORARY_ERROR_PATTERNS == <<
    <<"t", "i", "m", "e", "o", "u", "t">>,
    <<"t", "i", "m", "e", "d", " ", "o", "u", "t">>,
    <<"r", "a", "t", "e", " ", "l", "i", "m", "i", "t">>,
    <<"4", "2", "9">>,
    <<"5", "0", "0">>,
    <<"5", "0", "2">>,
    <<"5", "0", "3">>,
    <<"5", "0", "4">>,
    <<"c", "o", "n", "n", "e", "c", "t", "i", "o", "n">>,
    <<"n", "e", "t", "w", "o", "r", "k">>,
    <<"t", "a", "r", "g", "e", "t", " ", "c", "l", "o", "s", "e", "d">>,
    <<"b", "r", "o", "w", "s", "e", "r">>,
    <<"p", "l", "a", "y", "w", "r", "i", "g", "h", "t">> >>

\* ErrorType: the four permanent kinds
PermanentErrorTypes ==
    {"authentication_failed", "permission_denied", "not_found", "invalid_input"}

\* ErrorType: the temporary kinds
TemporaryErrorTypes ==
    {"network_timeout", "rate_limited", "server_error", "browser_crashed", "unknown"}

\* the faults the operations are made to raise: str(error) and type(error).__name__
Faults == {
    [message |-> <<"T", "i", "m", "e", "o", "u", "t", " ", "3", "0", "s">>,
     type_name |-> <<"T", "i", "m", "e", "o", "u", "t", "E", "r", "r", "o", "r">>],
    [message |-> <<"4", "0", "1", " ", "U", "n", "a", "u", "t", "h", "o", "r", "i", "z", "e", "d">>,
     type_name |-> <<"H", "T", "T", "P", "E", "r", "r", "o", "r">>],
    [message |-> <<"4", "0", "3", " ", "F", "o", "r", "b", "i", "d", "d", "e", "n">>,
     type_name |-> <<"H", "T", "T", "P", "E", "r", "r", "o", "r">>],
    [message |-> <<"p", "a", "g", "e", " ", "n", "o", "t", " ", "f", "o", "u", "n", "d">>,
     type_name |-> <<"E", "r", "r", "o", "r">>],
    [message |-> <<"i", "n", "v", "a", "l", "i", "d", " ", "a", "r", "g">>,
     type_name |-> <<"V", "a", "l", "u", "e", "E", "r", "r", "o", "r">>],
    [message |-> <<"H", "T", "T", "P", " ", "4", "0", "1">>,
     type_name |-> <<"E", "r", "r", "o", "r">>],
    [message |-> <<"4", "2", "9", " ", "r", "a", "t", "e", " ", "l", "i", "m", "i", "t">>,
     type_name |-> <<"E", "r", "r", "o", "r">>],
    [message |-> <<"5", "0", "2">>,
     type_name |-> <<"H", "T", "T", "P", "E", "r", "r", "o", "r">>],
    [message |-> <<"T", "a", "r", "g", "e", "t", " ", "c", "l", "o", "s", "e", "d">>,
     type_name |-> <<"E", "r", "r", "o", "r">>],
    [message |-> <<"c", "o", "n", "n", "e", "c", "t", "i", "o", "n", " ", "r", "e", "s", "e", "t">>,
     type_name |-> <<"E", "r", "r", "o", "r">>],
    [message |-> <<"4", "0", "1", " ", "a", "u", "t", "h", " ", "t", "i", "m", "e", "o", "u", "t">>,
     type_name |-> <<"E", "r", "r", "o", "r">>],
    [message |-> <<"b", "o", "o", "m">>,
     type_name |-> <<"P", "e", "r", "m", "i", "s", "s", "i", "o", "n", "E", "r", "r", "o", "r">>],
    [message |-> <<"b", "o", "o", "m">>,
     type_name |-> <<"V", "a", "l", "u", "e", "E", "r", "r", "o", "r">>] }

\* the patterns of a list that occur in the message or the type name,
\* both lower-cased, as indices in list order
MatchingPatterns(patterns, error) ==
    {i \in 1..Len(patterns) :
        \/ Contains(Lower(error.message), patterns[i])
        \/ Contains(Lower(error.type_name), patterns[i])}

LastIndex(S) == CHOOSE i \in S : \A k \in S : i >= k

\* the first element of a non-empty set of indices
FirstIndex(S) == CHOOSE i \in S : \A k \in S : i <= k

\* RetryHandler.classify_error
classify_error(error) ==
    LET perm == MatchingPatterns(PERMANENT_ERROR_PATTERNS, error)
        temp == MatchingPatterns(TEMPORARY_ERROR_PATTERNS, error)
    IN  IF perm # {}
        THEN LET pattern == PERMANENT_ERROR_PATTERNS[FirstIndex(perm)]
             IN  IF Contains(pattern, <<"a", "u", "t", "h">>)
                 THEN "authentication_failed"
                 ELSE IF \/ Contains(pattern, <<"p", "e", "r", "m", "i", "s", "s", "i", "o", "n">>)
                         \/ Contains(pattern, <<"f", "o", "r", "b", "i", "d", "d", "e", "n">>)
                         \/ Contains(pattern, <<"4", "0", "3">>)
                 THEN "permission_denied"
                 ELSE IF \/ Contains(pattern, <<"n", "o", "t", " ", "f", "o", "u", "n", "d">>)
                         \/ Contains(pattern, <<"4", "0", "4">>)
                 THEN "not_found"
                 ELSE "invalid_input"
        ELSE IF temp # {}
        THEN LET pattern == TEMPORARY_ERROR_PATTERNS[FirstIndex(temp)]
             IN  IF Contains(pattern, <<"t", "i", "m", "e", "o", "u", "t">>)
                 THEN "network_timeout"
                 ELSE IF \/ Contains(pattern, <<"r", "a", "t", "e", " ", "l", "i", "m", "i", "t">>)
                         \/ Contains(pattern, <<"4", "2", "9">>)
                 THEN "rate_limited"
                 ELSE IF \/ Contains(pattern, <<"5", "0", "0">>)
                         \/ Contains(pattern, <<"5", "0", "2">>)
                         \/ Contains(pattern, <<"5", "0", "3">>)
                         \/ Contains(pattern, <<"5", "0", "4">>)
                 THEN "server_error"
                 ELSE IF \/ Contains(pattern, <<"b", "r", "o", "w", "s", "e", "r">>)
                         \/ Contains(pattern, <<"p", "l", "a", "y", "w", "r", "i", "g", "h", "t">>)
                         \/ Contains(pattern, <<"t", "a", "r", "g", "e", "t", " ", "c", "l", "o", "s", "e", "d">>)
                 THEN "browser_crashed"
                 ELSE "network_timeout"
        ELSE "unknown"

\* the attempt-limit test of should_retry, with `>` for `>=`
AttemptLimitReachedOffByOne(attempt) == attempt > handler.max_attempts

\* should_retry: `if attempt >= self.max_attempts`
AttemptLimitReached(attempt) == attempt >= handler.max_attempts

\* RetryHandler.should_retry
should_retry(error, attempt) ==
    IF AttemptLimitReached(attempt) THEN FALSE
    ELSE IF classify_error(error) \in PermanentErrorTypes THEN FALSE
    ELSE TRUE

\* the cap of get_backoff_delay: min(delay, 60)
BackoffCap == 60

\* Python int ** with a non-negative exponent (0 ** 0 is 1)
RECURSIVE Pow(_, _)
Pow(b, e) == IF e <= 0 THEN 1 ELSE b * Pow(b, e - 1)

\* Python min of two numbers
Min(a, b) == IF a < b THEN a ELSE b

\* get_backoff_delay with the exponent `attempt` for `attempt - 1`
get_backoff_delay_late(attempt) ==
    Min(handler.initial_delay * Pow(handler.backoff_base, attempt), BackoffCap)

\* RetryHandler.get_backoff_delay, for attempt >= 1
get_backoff_delay(attempt) ==
    Min(handler.initial_delay * Pow(handler.backoff_base, attempt - 1), BackoffCap)

\* the configurations RetryConfig accepts in the model: any integers
ConfigBases == {-1, 0, 1, 2, 3}
ConfigDelays == {-1, 0, 1, 2, 60, 61}

(***************************************************************************)
(* The page: table rows, failure markers, the two scans                    *)
(***************************************************************************)

\* bound: the largest number of rows a selector matches
MaxRows == 2

VARIABLES
    rowkinds,   \* the kinds of row the page of this run can show
    rowfaults   \* the faults reading a row can raise in this run

\* failure_indicators (monitor_actions.py) and the default of
\* MonitoringConfig.failure_indicators: two Japanese markers, "error", "failed"
failure_indicators == <<
    <<"U+5931", "U+6557">>,
    <<"U+30A8", "U+30E9", "U+30FC">>,
    <<"e", "r", "r", "o", "r">>,
    <<"f", "a", "i", "l", "e", "d">> >>

\* a row without a td element: row.locator('td').first.count() == 0
NoCell == <<"<no td>">>

\* Python None where the code returns Optional[str]
None == <<"<None>">>

\* the rows the page shows in a run of the whole pipeline: inner_text() of
\* the row and of its first td
PageRowKinds == {
    [text |-> <<"a", "\t", "o", "k">>, cell |-> <<"a">>],
    [text |-> <<"b", "\t", "f", "a", "i", "l", "e", "d">>, cell |-> <<"b">>] }

\* the rows the scans are checked on: also a status in another case, a
\* failed row without td cells, a failed row with a blank first cell
ScanRowKinds == PageRowKinds \cup {
    [text |-> <<"c", "\t", "F", "a", "i", "l", "e", "d">>, cell |-> <<"c">>],
    [text |-> <<"f", "a", "i", "l", "e", "d">>, cell |-> NoCell],
    [text |-> <<" ", "\t", "U+5931", "U+6557">>, cell |-> <<" ">>],
    [text |-> <<"U+30BF", "U+30A4", "U+30D7", "\n", "a", "b", "\n",
                "d", "o", "c", "s", "\t", "f", "a", "i", "l", "e", "d">>,
     cell |-> NoCell] }

\* the tables a locator can return: up to MaxRows rows in DOM order, each
\* row identified by its position when first seen
Tables ==
    UNION {{[i \in 1..n |-> [id |-> i, text |-> f[i].text, cell |-> f[i].cell]] :
                f \in [1..n -> rowkinds]} : n \in 0..MaxRows}

\* what reading one row can do: succeed, raise in row.inner_text(), or
\* raise while reading the first cell
RowFaults == {"none", "text", "cell"}

\* the readings of the rows of a table, one per row
RowReadings(rows) == [1..Len(rows) -> rowfaults]

\* the is_failed loop of monitor_actions.main: any indicator in row_text
is_failed(row_text) == ContainsAny(row_text, failure_indicators)

\* f'File #{i}'
FileTag(i) == <<"F", "i", "l", "e", " ", "#">> \o Digits(i)

\* f"Row_{row_index}"
RowTag(i) == <<"R", "o", "w", "_">> \o Digits(i)

\* the failed item monitor_actions.main appends for row i (0-based) of
\* the matched rows, as a list of zero or one entries
ActionsFailedEntry(row, i, fault) ==
    IF fault = "text" THEN <<>>
    ELSE IF ~is_failed(row.text) THEN <<>>
    ELSE IF fault = "cell"
         THEN <<[row |-> row.id, file_name |-> FileTag(i), index |-> i]>>
    ELSE IF row.cell # NoCell
         THEN <<[row |-> row.id, file_name |-> Strip(row.cell), index |-> i]>>
    ELSE <<>>

\* the rows visited last to first
RECURSIVE ActionsScanRowsReversed(_, _, _)
ActionsScanRowsReversed(rows, faults, n) ==
    IF n = 0 THEN <<>>
    ELSE ActionsFailedEntry(rows[n], n - 1, faults[n])
           \o ActionsScanRowsReversed(rows, faults, n - 1)

\* the row loop of monitor_actions.main over rows[1..n]
RECURSIVE ActionsScanRows(_, _, _)
ActionsScanRows(rows, faults, n) ==
    IF n = 0 THEN <<>>
    ELSE ActionsScanRows(rows, faults, n - 1)
           \o ActionsFailedEntry(rows[n], n - 1, faults[n])

\* the header labels _extract_file_name_from_row skips
HeaderLabels == {
    <<"U+30EA", "U+30BD", "U+30FC", "U+30B9">>,
    <<"U+30BF", "U+30A4", "U+30C8", "U+30EB">>,
    <<"U+30BF", "U+30A4", "U+30D7">>,
    <<"U+30B5", "U+30A4", "U+30BA">>,
    <<"U+30B9", "U+30C6", "U+30FC", "U+30BF", "U+30B9">>,
    <<"U+30E2", "U+30C7", "U+30EB">>,
    <<"U+30C8", "U+30FC", "U+30AF", "U+30F3", "U+6570">>,
    <<"U+6700", "U+7D42", "U+66F4", "U+65B0", "U+65E5">>,
    <<"U+30A2", "U+30AF", "U+30B7", "U+30E7", "U+30F3">> }

RECURSIVE FirstNonHeaderLine(_)
FirstNonHeaderLine(lines) ==
    IF lines = <<>> THEN None
    ELSE LET line == Strip(Head(lines))
         IN  IF line # <<>> /\ line \notin HeaderLabels THEN line
             ELSE FirstNonHeaderLine(Tail(lines))

\* the line loop of _extract_file_name_from_row: the first stripped,
\* non-header line whose first tab field is longer than 3, else None
RECURSIVE FirstUsableLine(_)
FirstUsableLine(lines) ==
    IF lines = <<>> THEN None
    ELSE LET line == Strip(Head(lines))
             file_name == Strip(Head(SplitOn(line, "\t")))
         IN  IF line # <<>> /\ line \notin HeaderLabels /\ Len(file_name) > 3
             THEN file_name
             ELSE FirstUsableLine(Tail(lines))

\* KBMonitor._extract_file_name_from_row
extract_file_name_from_row(row, fault) ==
    IF row.text = <<>> THEN None
    ELSE IF fault # "cell" /\ row.cell # NoCell /\ Strip(row.cell) # <<>>
         THEN Strip(row.cell)
    ELSE LET by_line == FirstUsableLine(SplitOn(row.text, "\n"))
             words == SplitWords(row.text)
         IN  IF by_line # None THEN by_line
             ELSE IF words # <<>> THEN Head(words)
             ELSE None

\* `file_name or f"Row_{row_index}"`
NameOrRowTag(file_name, i) ==
    IF file_name = None \/ file_name = <<>> THEN RowTag(i) ELSE file_name

\* the FailedItem KBMonitor._scan_failures appends for row i (0-based), as a
\* list of zero or one entries
KBFailedEntry(row, i, fault, markers) ==
    IF fault = "text" THEN <<>>
    ELSE IF ~ContainsAny(row.text, markers) THEN <<>>
    ELSE <<[row |-> row.id,
            file_name |-> NameOrRowTag(extract_file_name_from_row(row, fault), i),
            status_text |-> FirstMarker(row.text, markers),
            screenshot_path |-> FALSE]>>

\* the row loop of KBMonitor._scan_failures over rows[1..n]
RECURSIVE KBScanRows(_, _, _, _)
KBScanRows(rows, faults, markers, n) ==
    IF n = 0 THEN <<>>
    ELSE KBScanRows(rows, faults, markers, n - 1)
           \o KBFailedEntry(rows[n], n - 1, faults[n], markers)

(***************************************************************************)
(* State of one run                                                        *)
(***************************************************************************)

VARIABLES
    entry,          \* the entry point that runs: "monitor_actions" or "main"
    pc,             \* the position of the run in its entry point
    exit_code,      \* the process exit code, NoExit while the run goes on
    events,         \* history: what has happened in the run so far
    sends,          \* history: the webhook send calls made, in order
    table,          \* the page: the rows the matched selector returns now
    probed,         \* history: the selectors probed by the scan, in order
    readings,       \* history: how reading each scanned row went
    files_found,    \* monitor_actions.main: files_found
    total_items,    \* monitor_actions.main: total_items
    used_selector,  \* monitor_actions.main: used_selector
    failed_rows,    \* monitor_actions.main: failed_rows
    item,           \* retry_failed_items: position in failed_rows (1-based)
    attempt,        \* retry_failed_items: the attempt of the inner loop
    result,         \* retry_failed_items: result of the current item
    results,        \* retry_failed_items: results
    history,        \* history: the outcome of each attempt executed for the
                    \* item last worked on
    run,            \* kb_monitor: the MonitorResult of check_status
    notifier,       \* main.py: notifier is not None (lark.enabled)
    pending         \* main.py: the value being returned while finally runs

VARIABLE
    session     \* the browser resources that are open: driver, browser, context, page

vars == <<handler, call, rowkinds, rowfaults, entry, session, pc, exit_code, events,
          sends, table, probed, readings,
          files_found, total_items, used_selector, failed_rows, item, attempt,
          result, results, history, run, notifier, pending>>

policyVars == <<handler, call, rowkinds, rowfaults>>
scanVars == <<table, probed, readings, files_found, total_items, used_selector,
              failed_rows>>
retryVars == <<item, attempt, result, results, history>>
mainVars == <<run, notifier, pending>>

NoExit == -1
NoSelector == "<None>"

\* retry_failed_items: MAX_RETRIES
MAX_RETRIES == 3

\* selectors_to_try of monitor_actions.main, in list order
selectors_to_try == <<
    ".mantine-Table-tbody tr",
    "[class*=mantine-Table-tbody] tr",
    "tbody tr",
    "table tr",
    "[role=row]" >>

\* RetryConfig defaults
DefaultHandler == [max_attempts |-> 3, backoff_base |-> 2, initial_delay |-> 1]

NoCall == [op |-> "none"]

\* MonitorResult(success=False, timestamp=start_time)
NewMonitorResult ==
    [success |-> FALSE, total_items |-> 0, failed_items |-> <<>>,
     screenshots_taken |-> 0, retries_triggered |-> 0, error |-> "None",
     execution_time |-> 0]

\* the result dict retry_failed_items starts an item with
NewResult(failed) ==
    [file_name |-> failed.file_name, attempts |-> 0,
     final_status |-> "still_failed", detail |-> <<>>, success |-> FALSE]

NoResult == [file_name |-> None, attempts |-> 0,
             final_status |-> "none", detail |-> <<>>, success |-> FALSE]

\* the process ends with this exit code
Exit(code) == pc' = "exited" /\ exit_code' = code

\* one call of requests.post on the webhook
Send(kind, outcome) == sends' = Append(sends, [kind |-> kind, outcome |-> outcome])

Note(e) == events' = events \cup e

(***************************************************************************)
(* Report assembly: the two message cards                                  *)
(***************************************************************************)

\* the first n elements of a sequence: seq[:n]
Take(seq, n) == SubSeq(seq, 1, IF Len(seq) < n THEN Len(seq) ELSE n)

\* the slice limits of the cards
MaxCardItems == 10
MaxCardImages == 4

\* MonitorResult.has_failures
has_failures(r) == Len(r.failed_items) > 0

\* LarkNotifier._build_message_card: header colour and status line, the
\* summary numbers, the first ten failed items, the images or the count of
\* local screenshots (timestamp and execution time left out)
build_message_card(r, image_keys) ==
    [template_color |-> IF has_failures(r) THEN "red" ELSE "green",
     status_text |-> IF has_failures(r) THEN "Failures Detected" ELSE "No Failures",
     total_items |-> r.total_items,
     failed |-> Len(r.failed_items),
     retries_triggered |-> IF r.retries_triggered > 0 THEN r.retries_triggered ELSE 0,
     items |-> [i \in 1..Len(Take(r.failed_items, MaxCardItems)) |->
                  [file_name |-> r.failed_items[i].file_name,
                   status_text |-> r.failed_items[i].status_text]],
     more |-> IF Len(r.failed_items) > MaxCardItems
              THEN Len(r.failed_items) - MaxCardItems ELSE 0,
     images |-> image_keys,
     saved_locally |-> IF image_keys = 0 /\ r.screenshots_taken > 0
                       THEN r.screenshots_taken ELSE 0]

\* the number of results with success set
SuccessCount(retry_results) ==
    Cardinality({k \in 1..Len(retry_results) : retry_results[k].success})

\* the lines of the "Retry Details" element, two per result that made an
\* attempt
RECURSIVE RetryDetails(_)
RetryDetails(retry_results) ==
    IF retry_results = <<>> THEN <<>>
    ELSE LET r == Head(retry_results)
         IN  <<[icon |-> IF r.success THEN "ok" ELSE "x", text |-> r.file_name]>>
             \o (IF r.attempts > 0
                 THEN <<[icon |-> r.final_status, text |-> Digits(r.attempts)]>>
                 ELSE <<>>)
             \o RetryDetails(Tail(retry_results))

\* the status line of the card of monitor_actions.main
SummaryStatus(n_failed, n_success, retried) ==
    IF retried
    THEN IF n_failed - n_success = 0 THEN "All OK"
         ELSE IF n_success > 0 THEN "Partially Recovered"
         ELSE "Has Failures"
    ELSE IF n_failed = 0 THEN "All OK" ELSE "Has Failures"

\* monitor_actions.py lines 229-312: the card built from the scan totals,
\* the retry results and the image key (the time line left out)
ActionsCard(total, failed, retry_results, image_key) ==
    LET initial_failed == Len(failed)
        successful_retries == SuccessCount(retry_results)
        still_failed_count == initial_failed - successful_retries
    IN  [template_color |-> IF still_failed_count = 0 THEN "green"
                            ELSE IF successful_retries > 0 THEN "turquoise"
                            ELSE "red",
         status_text |-> SummaryStatus(initial_failed, successful_retries,
                                       retry_results # <<>>),
         total_items |-> total,
         initial_failed |-> initial_failed,
         successful_retries |-> successful_retries,
         still_failed |-> still_failed_count,
         details |-> Take(RetryDetails(retry_results), MaxCardItems),
         more |-> IF Len(RetryDetails(retry_results)) > MaxCardItems
                  THEN Len(RetryDetails(retry_results)) - MaxCardItems ELSE 0,
         image |-> image_key]

\* a webhook call that carries a report card
SendCard(outcome, card) ==
    sends' = Append(sends, [kind |-> "report", outcome |-> outcome, card |-> card])

(***************************************************************************)
(* The browser session                                                     *)
(***************************************************************************)

\* what a started session holds, in the order start() creates it
StartOrder == <<"playwright", "browser", "context", "page">>

\* the order in which BrowserController.close releases it
CloseOrder == <<"page", "context", "browser", "playwright">>

AllResources == {StartOrder[i] : i \in 1..Len(StartOrder)}

\* BrowserController.start: the resources created when the k-th step is the
\* one that raises (k = Len(StartOrder) + 1: none does)
Started(k) == {StartOrder[i] : i \in 1..(k - 1)}

\* BrowserController.close, one try block: the open resources are closed in
\* order until a close raises; that one and the ones after it stay open. The
\* result is what is still open when the k-th of them raises
StillOpen(open, k) ==
    LET todo == SelectSeq(CloseOrder, LAMBDA x : x \in open)
    IN  {todo[i] : i \in k..Len(todo)}

\* the number of open resources
OpenCount(open) == Cardinality(open)

\* monitor_actions.py line 54, `async with async_playwright() as p`: leaving
\* the block by return or by a fault stops the driver and with it the browser
AsyncWithExit == session' = IF pc' \in {"exited", "except"} THEN {} ELSE session

(***************************************************************************)
(* monitor_actions.py: main                                                *)
(***************************************************************************)

\* lines 16-41: the environment is validated before anything is started
ActionsValidateEnv ==
    /\ entry = "monitor_actions" /\ pc = "start"
    /\ \E ok \in BOOLEAN :
         IF ok THEN pc' = "launch" /\ Note({"pipeline_started"})
                    /\ UNCHANGED exit_code
         ELSE Exit(1) /\ Note({"config_error"})
    /\ UNCHANGED <<entry, session, sends, policyVars, scanVars, retryVars, mainVars>>

\* lines 50-66: launch the browser, open the base URL, fill the credentials;
\* a fault of any of them reaches the except clause
ActionsLaunchAndFill ==
    /\ entry = "monitor_actions" /\ pc = "launch"
    /\ \E fault \in BOOLEAN :
         IF fault THEN pc' = "except" /\ Note({"fault", "login_failed"})
                       /\ session' = {}
         ELSE pc' = "login" /\ UNCHANGED events /\ session' = AllResources
    /\ UNCHANGED <<entry, exit_code, sends, policyVars, scanVars, retryVars, mainVars>>

\* lines 68-87: click the first login button found; none found: return 1
ActionsClickLogin ==
    /\ entry = "monitor_actions" /\ pc = "login"
    /\ \E login_clicked \in BOOLEAN :
         IF login_clicked THEN pc' = "navigate" /\ UNCHANGED <<exit_code, events>>
         ELSE Exit(1) /\ Note({"login_failed"})
    /\ AsyncWithExit
    /\ UNCHANGED <<entry, sends, policyVars, scanVars, retryVars, mainVars>>

\* lines 89-97: no DIRECT_KB_URL: return 1; page.goto may raise
ActionsNavigate ==
    /\ entry = "monitor_actions" /\ pc = "navigate"
    /\ \E direct_kb_url \in BOOLEAN, fault \in BOOLEAN :
         IF ~direct_kb_url THEN Exit(1) /\ Note({"nav_failed"})
         ELSE IF fault
              THEN pc' = "except" /\ Note({"fault", "nav_failed"}) /\ UNCHANGED exit_code
         ELSE pc' = "scan" /\ UNCHANGED <<exit_code, events>>
    /\ AsyncWithExit
    /\ UNCHANGED <<entry, sends, policyVars, scanVars, retryVars, mainVars>>

\* line 120 taken as `len(rows) >= 0`: an empty match is accepted
SelectorMatchedAlsoEmpty(rows, raised) == ~raised /\ Len(rows) >= 0

\* lines 116-120: the locator did not raise and `len(rows) > 0`
SelectorMatched(rows, raised) == ~raised /\ Len(rows) > 0

\* lines 115-167: one pass of the selector loop. The locator raises or
\* matches no row: the next selector is tried. It matches rows: they are
\* scanned for failures and the loop breaks
ActionsTrySelector ==
    /\ entry = "monitor_actions" /\ pc = "scan"
    /\ Len(probed) < Len(selectors_to_try)
    /\ LET selector == selectors_to_try[Len(probed) + 1] IN
       \E raised \in BOOLEAN, rows \in Tables :
         IF ~SelectorMatched(rows, raised)
         THEN /\ probed' = Append(probed, [selector |-> selector, count |-> 0])
              /\ pc' = IF Len(probed') = Len(selectors_to_try) THEN "scanned" ELSE "scan"
              /\ UNCHANGED <<table, readings, files_found, total_items, used_selector,
                             failed_rows>>
         ELSE \E faults \in RowReadings(rows) :
              /\ probed' = Append(probed, [selector |-> selector, count |-> Len(rows)])
              /\ table' = rows
              /\ readings' = faults
              /\ files_found' = TRUE
              /\ total_items' = Len(rows)
              /\ used_selector' = selector
              /\ failed_rows' = ActionsScanRows(rows, faults, Len(rows))
              /\ pc' = "scanned"
    /\ UNCHANGED <<entry, session, exit_code, events, sends, policyVars, retryVars, mainVars>>

\* lines 169-205: nothing found: post the error text and return 1 (a post
\* that raises reaches the except clause); else enter the retry stage when
\* there are failed rows
ActionsCheckFound ==
    /\ entry = "monitor_actions" /\ pc = "scanned"
    /\ IF ~files_found \/ total_items = 0
       THEN /\ \E raised \in BOOLEAN :
                 IF raised
                 THEN /\ Send("error", "raised")
                      /\ pc' = "except" /\ UNCHANGED exit_code
                      /\ Note({"table_not_found", "send_fault"})
                 ELSE /\ Send("error", "ok")
                      /\ Exit(1)
                      /\ Note({"table_not_found"})
            /\ UNCHANGED retryVars
       ELSE IF failed_rows # <<>>
       THEN /\ pc' = "attempt"
            /\ item' = 1 /\ attempt' = 1
            /\ result' = NewResult(failed_rows[1])
            /\ results' = <<>>
            /\ history' = <<>>
            /\ Note({"retry_stage"})
            /\ UNCHANGED <<exit_code, sends>>
       ELSE /\ pc' = "screenshot"
            /\ UNCHANGED <<exit_code, sends, events, retryVars>>
    /\ AsyncWithExit
    /\ UNCHANGED <<entry, policyVars, scanVars, mainVars>>

(***************************************************************************)
(* monitor_actions.py: retry_failed_items                                  *)
(***************************************************************************)

\* the text a row shows once its item has been processed again
ProcessedText == <<"o", "k">>

\* seq without its p-th element
RemoveAt(seq, p) == SubSeq(seq, 1, p - 1) \o SubSeq(seq, p + 1, Len(seq))

RemediateFirstRow(rows, p) ==
    {rows, [rows EXCEPT ![1].text = ProcessedText], RemoveAt(rows, 1)}

\* what the page can do to the table when the retry control of the row at
\* position p is clicked: leave the row failed, clear its status, or drop it
Remediate(rows, p) ==
    {rows, [rows EXCEPT ![p].text = ProcessedText], RemoveAt(rows, p)}

\* range(1, MAX_RETRIES + 2): one attempt too many
InRetryRangeOffByOne(n) == 1 <= n /\ n <= MAX_RETRIES + 1

\* line 441: `for attempt in range(1, MAX_RETRIES + 1)`
InRetryRange(n) == 1 <= n /\ n <= MAX_RETRIES

\* the outcome of the current attempt added to the history of the item; the
\* first attempt of an item starts the history afresh
Logged(outcome) == IF attempt = 1 THEN <<outcome>> ELSE Append(history, outcome)

FinishItemUnrecorded(res, outcome) ==
    /\ results' = results
    /\ history' = Logged(outcome)
    /\ IF item < Len(failed_rows)
       THEN /\ item' = item + 1
            /\ attempt' = 1
            /\ result' = NewResult(failed_rows[item + 1])
            /\ pc' = "attempt"
       ELSE /\ pc' = "screenshot"
            /\ UNCHANGED <<item, attempt, result>>

\* lines 544-545 and the item loop of line 429: the result is appended and
\* the next failed row, if any, is started; after the last one the function
\* returns to main (line 205)
FinishItem(res, outcome) ==
    /\ results' = Append(results, res)
    /\ IF item < Len(failed_rows)
       THEN /\ item' = item + 1
            /\ attempt' = 1
            /\ result' = NewResult(failed_rows[item + 1])
            /\ history' = Logged(outcome)
            /\ pc' = "attempt"
       ELSE /\ history' = Logged(outcome)
            /\ pc' = "screenshot"
            /\ UNCHANGED <<item, attempt, result>>

\* the end of one pass of the attempt loop that did not break: the next
\* attempt while the range lasts, else the loop is exhausted
NextAttempt(res, outcome) ==
    IF InRetryRange(attempt + 1)
    THEN /\ attempt' = attempt + 1
         /\ result' = res
         /\ history' = Logged(outcome)
         /\ pc' = "attempt"
         /\ UNCHANGED <<item, results>>
    ELSE FinishItem(res, outcome)

\* a fault inside the attempt that is not caught and reaches main's except
\* clause
AttemptRaisedEscalates(res) == pc' = "except" /\ UNCHANGED retryVars

\* line 542: str(e)[:50] keeps this many characters of the fault's message
ErrorLimit == 50

\* the message a fault of the retry stage carries: one character longer
\* than the slice of line 542
FaultMessages == {[i \in 1..(ErrorLimit + 1) |-> "x"]}

ErrorDetailWhole(message) == message

\* line 542: the part of the message after 'error: ' in final_status
ErrorDetail(message) == Take(message, ErrorLimit)

RecordFaultNowhere(res, message) == res

\* lines 537-542: the except clause; only the last attempt records the fault
RecordFault(res, message) ==
    IF attempt < MAX_RETRIES THEN res
    ELSE [res EXCEPT !.final_status = "error",
                     !.detail = ErrorDetail(message)]

\* lines 537-542: a fault inside the attempt; the last attempt records it
AttemptRaised(res) ==
    \E message \in FaultMessages :
        NextAttempt(RecordFault(res, message), "fault")

\* lines 503-507 and 537-542: the retry option was not found and the Escape
\* key press that closes the menu raises before final_status is set
EscapeRaised(res) ==
    \E message \in FaultMessages :
        NextAttempt(RecordFault(res, message), "escape_fault")

\* lines 441-509: the attempt up to the click on the retry control
RetryAttempt ==
    /\ entry = "monitor_actions" /\ pc = "attempt"
    /\ LET res == [result EXCEPT !.attempts = attempt]
           row_index == failed_rows[item].index
       IN
       \/ /\ AttemptRaised(res)
          /\ UNCHANGED table
       \/ /\ row_index >= Len(table)
          /\ FinishItem([res EXCEPT !.final_status = "row_disappeared"],
                        "row_disappeared")
          /\ UNCHANGED table
       \/ /\ row_index < Len(table)
          /\ \E menu_clicked \in BOOLEAN, retry_clicked \in BOOLEAN :
               IF ~menu_clicked
               THEN /\ FinishItem([res EXCEPT !.final_status = "menu_not_found"],
                                  "menu_not_found")
                    /\ UNCHANGED table
               ELSE IF ~retry_clicked
               THEN /\ \E escape_raised \in BOOLEAN :
                         IF escape_raised
                         THEN EscapeRaised(res)
                         ELSE FinishItem([res EXCEPT !.final_status = "retry_option_not_found"],
                                         "retry_option_not_found")
                    /\ UNCHANGED table
               ELSE /\ table' \in Remediate(table, row_index + 1)
                    /\ result' = res
                    /\ pc' = "check"
                    /\ UNCHANGED <<item, attempt, results, history>>
    /\ UNCHANGED <<entry, session, exit_code, events, sends, policyVars, mainVars,
                   probed, readings, files_found, total_items, used_selector,
                   failed_rows>>

\* line 519 with all() for any(): failed only when every indicator occurs
still_failed_all(row_text) ==
    \A k \in 1..Len(failure_indicators) : Contains(row_text, failure_indicators[k])

\* line 519: still_failed = any(indicator in row_text for indicator in ...)
still_failed(row_text) == ContainsAny(row_text, failure_indicators)

\* lines 511-542: the table is queried again and the row at the index re-read
RetryCheck ==
    /\ entry = "monitor_actions" /\ pc = "check"
    /\ LET row_index == failed_rows[item].index IN
       \/ AttemptRaised(result)
       \/ /\ row_index < Len(table)
          /\ IF ~still_failed(table[row_index + 1].text)
             THEN FinishItem([result EXCEPT !.final_status = "success",
                                            !.success = TRUE], "success")
             ELSE NextAttempt(IF attempt < MAX_RETRIES THEN result
                              ELSE [result EXCEPT !.final_status = "max_retries_reached"],
                              "still_failed")
       \/ /\ row_index >= Len(table)
          /\ FinishItem([result EXCEPT !.final_status = "row_disappeared"],
                        "row_disappeared")
    /\ UNCHANGED <<entry, session, exit_code, events, sends, policyVars, scanVars, mainVars>>

(***************************************************************************)
(* monitor_actions.py: main, after the retry stage                         *)
(***************************************************************************)

\* lines 207-224: the full-page screenshot (may raise) and the optional
\* image upload (its faults are caught)
ActionsScreenshot ==
    /\ entry = "monitor_actions" /\ pc = "screenshot"
    /\ \E fault \in BOOLEAN :
         IF fault THEN pc' = "except" /\ Note({"fault"})
         ELSE pc' = "notify" /\ Note({"screenshot", "stages_done"})
    /\ AsyncWithExit
    /\ UNCHANGED <<entry, exit_code, sends, policyVars, scanVars, retryVars, mainVars>>

\* lines 226-315: the report card is built and posted; a post that raises
\* reaches the except clause
ActionsNotify ==
    /\ entry = "monitor_actions" /\ pc = "notify"
    /\ \E raised \in BOOLEAN, image_key \in BOOLEAN :
         LET card == ActionsCard(total_items, failed_rows, results, image_key)
         IN  IF raised
             THEN SendCard("raised", card) /\ pc' = "except" /\ Note({"send_fault"})
             ELSE SendCard("ok", card) /\ pc' = "close" /\ UNCHANGED events
    /\ AsyncWithExit
    /\ UNCHANGED <<entry, exit_code, policyVars, scanVars, retryVars, mainVars>>

\* lines 317-321 and 345: the browser is closed and main returns 0; a
\* close that raises reaches the except clause
ActionsClose ==
    /\ entry = "monitor_actions" /\ pc = "close"
    /\ \E fault \in BOOLEAN :
         IF fault THEN pc' = "except" /\ Note({"fault"}) /\ UNCHANGED exit_code
         ELSE Exit(0) /\ UNCHANGED events
    /\ AsyncWithExit
    /\ UNCHANGED <<entry, sends, policyVars, scanVars, retryVars, mainVars>>

\* lines 323-343: the except clause posts the error text and returns 1; a
\* post that raises here ends the process with a traceback, exit code 1
ActionsExcept ==
    /\ entry = "monitor_actions" /\ pc = "except"
    /\ \E raised \in BOOLEAN :
         IF raised THEN Send("error", "raised") /\ Note({"send_fault"})
         ELSE Send("error", "ok") /\ UNCHANGED events
    /\ Exit(1)
    /\ UNCHANGED <<entry, session, policyVars, scanVars, retryVars, mainVars>>

(***************************************************************************)
(* src/main.py: main, with KBMonitor.check_status and LarkNotifier         *)
(***************************************************************************)

\* MonitorResult.error unset
NoError == "None"

\* LarkNotifier._send_webhook: the post is accepted (True), answered with
\* code != 0 (False), raises a requests.RequestException (caught: False), or
\* fails outside RequestException, in response.json() / result.get (raised)
WebhookOutcomes == {"ok", "rejected", "request_exception", "raised"}

\* main.py lines 29-61: configuration, credentials and the notifier; a
\* failure of any of them ends the run with 1 before the try block
MainLoadConfig ==
    /\ entry = "main" /\ pc = "start"
    /\ \E ok \in BOOLEAN, enabled \in BOOLEAN :
         IF ok THEN /\ pc' = "start_browser"
                    /\ notifier' = enabled
                    /\ Note({"pipeline_started"})
                    /\ UNCHANGED exit_code
         ELSE Exit(1) /\ Note({"config_error"}) /\ UNCHANGED notifier
    /\ UNCHANGED <<entry, session, sends, policyVars, scanVars, retryVars, run, pending>>

\* main.py lines 63-73: the controller is built (may raise) and started; a
\* start that fails sends the error alert and returns 1
MainStartBrowser ==
    /\ entry = "main" /\ pc = "start_browser"
    /\ \E outcome \in {"started", "not_started", "raised"} :
         CASE outcome = "started" ->
                /\ pc' = "login" /\ UNCHANGED <<events, sends, pending>>
                /\ session' = AllResources
           [] outcome = "raised" ->
                /\ pc' = "main_except" /\ Note({"fault"}) /\ UNCHANGED <<sends, pending>>
                /\ UNCHANGED session
           [] outcome = "not_started" ->
                /\ \E k \in 1..Len(StartOrder) : session' = Started(k)
                /\ IF notifier
                   THEN \E o \in WebhookOutcomes :
                          /\ Send("error", o)
                          /\ IF o = "raised"
                             THEN pc' = "main_except" /\ Note({"fault", "send_fault"})
                                  /\ UNCHANGED pending
                             ELSE pc' = "finally" /\ pending' = 1
                                  /\ Note(IF o = "ok" THEN {"fault"}
                                          ELSE {"fault", "send_fault"})
                   ELSE pc' = "finally" /\ pending' = 1 /\ Note({"fault"})
                        /\ UNCHANGED sends
    /\ UNCHANGED <<entry, exit_code, policyVars, scanVars, retryVars, run, notifier>>

\* the time a run of main.py has taken when the step at pc ends, in steps of
\* the pipeline: the clock datetime.now() reads
StageEnd == [login |-> 1, navigate |-> 2, scan |-> 3, screenshot |-> 4,
             details |-> 5, retries |-> 6, report |-> 7]

\* kb_monitor.py lines 155-157: (datetime.now() - start_time) in the finally
\* clause of check_status, read when the step at pc ends
Elapsed == StageEnd[pc]

StageFailedGoesOn(message, event, following) ==
    /\ run' = [run EXCEPT !.error = message]
    /\ pc' = following
    /\ Note({event})

StageFailedWithoutError(message, event, following) ==
    /\ run' = [run EXCEPT !.execution_time = Elapsed]
    /\ pc' = "report"
    /\ Note({event})

\* kb_monitor.py lines 92-95 and 113-116: a failed stage sets the error and
\* returns the result, the stage that would have followed is not entered
StageFailed(message, event, following) ==
    /\ run' = [run EXCEPT !.error = message, !.execution_time = Elapsed]
    /\ pc' = "report"
    /\ Note({event})

\* kb_monitor.py lines 85-96: login; a failed login returns the result
CheckLogin ==
    /\ entry = "main" /\ pc = "login"
    /\ \E success \in BOOLEAN :
         IF success THEN pc' = "navigate" /\ UNCHANGED <<run, events>>
         ELSE StageFailed("Login failed", "login_failed", "navigate")
    /\ UNCHANGED <<entry, session, exit_code, sends, policyVars, scanVars, retryVars,
                   notifier, pending>>

\* last_error = None: no fault met
NoFault == [message |-> <<>>, type_name |-> <<"N", "o", "n", "e", "T", "y", "p", "e">>]

\* the faults page.goto is made to raise: a timeout and a missing page
NavigationFaults ==
    {e \in Faults :
        e.message \in {<<"T", "i", "m", "e", "o", "u", "t", " ", "3", "0", "s">>,
                       <<"p", "a", "g", "e", " ", "n", "o", "t", " ", "f", "o", "u", "n", "d">>}}

\* browser_controller.py lines 130-144 and 333-352: navigate and
\* navigate_to_url call page.goto once and turn a fault into a failed
\* NavigationResult; the calls made and the fault met are kept here
GotoOnce(error) == [op |-> "goto", tried |-> 1, last_error |-> error]

\* kb_monitor.py lines 98-116: navigation; a failed one returns the result
CheckNavigate ==
    /\ entry = "main" /\ pc = "navigate"
    /\ \E error \in NavigationFaults \cup {NoFault} :
         /\ call' = GotoOnce(error)
         /\ IF error = NoFault THEN pc' = "scan" /\ UNCHANGED <<run, events>>
            ELSE StageFailed("Navigation failed", "nav_failed", "scan")
    /\ UNCHANGED <<entry, session, exit_code, sends, handler, rowkinds, rowfaults,
                   scanVars, retryVars, notifier, pending>>

\* KBMonitor._count_total_items: the tbody rows its own query finds, else the
\* tr rows less the header row, else 0; 0 when a query raises (line 317)
count_total_items(raised, tbody_rows, tr_rows) ==
    IF raised THEN 0
    ELSE IF tbody_rows = 0
    THEN IF tr_rows > 0 THEN tr_rows - 1 ELSE 0
    ELSE tbody_rows

\* kb_monitor.py lines 118-124: _scan_failures over 'tbody tr' (a locator
\* that raises leaves the failed list empty), then _count_total_items, which
\* queries the page again
CheckScan ==
    /\ entry = "main" /\ pc = "scan"
    /\ \E raised \in BOOLEAN, rows \in Tables, count_raised \in BOOLEAN,
          tbody_rows \in 0..MaxRows, tr_rows \in 0..MaxRows :
       \E faults \in RowReadings(rows) :
         /\ table' = rows
         /\ probed' = <<[selector |-> "tbody tr", count |-> Len(rows)]>>
         /\ readings' = IF raised THEN [i \in 1..Len(rows) |-> "unread"] ELSE faults
         /\ run' = [run EXCEPT
                !.failed_items = IF raised THEN <<>>
                                 ELSE KBScanRows(rows, faults, failure_indicators, Len(rows)),
                !.total_items = count_total_items(count_raised, tbody_rows, tr_rows)]
         /\ IF Len(rows) = 0 THEN Note({"table_not_found"}) ELSE UNCHANGED events
    /\ pc' = "screenshot"
    /\ UNCHANGED <<entry, session, exit_code, sends, policyVars, retryVars, notifier, pending,
                   files_found, total_items, used_selector, failed_rows>>

\* kb_monitor.py lines 126-148: the full-page screenshot is always taken;
\* without failed items the run is complete. A fault outside
\* take_screenshot reaches the except clause of lines 150-153
CheckScreenshot ==
    /\ entry = "main" /\ pc = "screenshot"
    /\ \E outcome \in {"saved", "not_saved", "raised"} :
         CASE outcome = "raised" ->
                /\ run' = [run EXCEPT !.error = "Monitoring failed", !.success = FALSE,
                                       !.execution_time = Elapsed]
                /\ pc' = "report"
                /\ Note({"fault"})
           [] OTHER ->
                /\ run' = [run EXCEPT
                       !.screenshots_taken = IF outcome = "saved" THEN @ + 1 ELSE @,
                       !.success = (run.failed_items = <<>>),
                       !.execution_time = IF run.failed_items = <<>> THEN Elapsed ELSE @]
                /\ pc' = IF run.failed_items = <<>> THEN "report" ELSE "details"
                /\ Note(IF run.failed_items = <<>> THEN {"screenshot", "stages_done"}
                        ELSE {"screenshot"})
    /\ UNCHANGED <<entry, session, exit_code, sends, policyVars, scanVars, retryVars,
                   notifier, pending>>

DetailsFaultEndsRun(shot) ==
    IF \E i \in DOMAIN shot : ~shot[i]
    THEN pc' = "report" /\ Note({"evidence", "fault"})
    ELSE pc' = "retries" /\ Note({"evidence"})

\* kb_monitor.py lines 332-392 and 141: every item's capture runs inside its
\* own try/except, so whatever the items' outcomes the loop ends and
\* check_status goes on to the retries
DetailsCaptured(shot) ==
    /\ pc' = "retries"
    /\ Note({"evidence"})

\* kb_monitor.py lines 132-139: _capture_failure_details, best effort: each
\* failed item gets a screenshot or, on a fault, none
CheckCaptureDetails ==
    /\ entry = "main" /\ pc = "details"
    /\ \E shot \in [1..Len(run.failed_items) -> BOOLEAN] :
         /\ run' = [run EXCEPT
                !.failed_items = [i \in 1..Len(@) |-> [@[i] EXCEPT !.screenshot_path = shot[i]]],
                !.screenshots_taken = @ + Cardinality({i \in DOMAIN shot : shot[i]})]
         /\ DetailsCaptured(shot)
    /\ UNCHANGED <<entry, session, exit_code, sends, policyVars, scanVars, retryVars,
                   notifier, pending>>

\* kb_monitor.py lines 141-148 with _trigger_retries: the bulk button
\* retries every item, else each item's own button is tried; faults are
\* caught. The run is then complete
CheckTriggerRetries ==
    /\ entry = "main" /\ pc = "retries"
    /\ \E bulk \in BOOLEAN, clicked \in 0..Len(run.failed_items) :
         run' = [run EXCEPT
             !.retries_triggered = IF bulk THEN Len(run.failed_items) ELSE clicked,
             !.success = TRUE,
             !.execution_time = Elapsed]
    /\ pc' = "report"
    /\ Note({"retry_stage", "stages_done"})
    /\ UNCHANGED <<entry, session, exit_code, sends, policyVars, scanVars, retryVars,
                   notifier, pending>>

\* main.py lines 84-106 with LarkNotifier.send_summary: the summary is
\* sent when there is a notifier; send_summary catches every fault, one
\* raised before the post included ("not_sent"); the result decides the code
MainSendSummary ==
    /\ entry = "main" /\ pc = "report"
    /\ IF notifier
       THEN \E o \in WebhookOutcomes \cup {"not_sent"},
               image_keys \in 0..Min(run.screenshots_taken, MaxCardImages) :
              /\ IF o = "not_sent" THEN UNCHANGED sends
                 ELSE SendCard(o, build_message_card(run, image_keys))
              /\ IF o = "ok" THEN UNCHANGED events ELSE Note({"send_fault"})
       ELSE UNCHANGED <<sends, events>>
    /\ pending' = IF run.success THEN 0 ELSE 1
    /\ pc' = "finally"
    /\ UNCHANGED <<entry, session, exit_code, policyVars, scanVars, retryVars, run, notifier>>

\* main.py lines 108-110 and run_sync lines 141-144: an interrupt anywhere
\* inside the try block, or in the except clause, ends the run with 130
MainInterrupt ==
    /\ entry = "main"
    /\ pc \in {"start_browser", "login", "navigate", "scan", "screenshot",
               "details", "retries", "report", "main_except"}
    /\ pending' = 130
    /\ pc' = "finally"
    /\ Note({"interrupt"})
    /\ UNCHANGED <<entry, session, exit_code, sends, policyVars, scanVars, retryVars,
                   run, notifier>>

\* main.py lines 112-122: the error alert is sent and 1 returned; an alert
\* that raises leaves main with the fault: exit code 1 all the same
MainExcept ==
    /\ entry = "main" /\ pc = "main_except"
    /\ IF notifier
       THEN \E o \in WebhookOutcomes :
              /\ Send("error", o)
              /\ IF o = "ok" THEN UNCHANGED events ELSE Note({"send_fault"})
       ELSE UNCHANGED <<sends, events>>
    /\ pending' = 1
    /\ pc' = "finally"
    /\ UNCHANGED <<entry, session, exit_code, policyVars, scanVars, retryVars, run, notifier>>

\* main.py lines 124-131 with BrowserController.close: the session is closed
\* resource by resource inside one try block, a close that raises ends the
\* cleanup (the fault is logged); the pending value becomes the exit code
MainFinally ==
    /\ entry = "main" /\ pc = "finally"
    /\ Exit(pending)
    /\ \E k \in 1..(OpenCount(session) + 1) :
         /\ session' = StillOpen(session, k)
         /\ Note(IF k > OpenCount(session) THEN {"browser_closed"} ELSE {"close_fault"})
    /\ UNCHANGED <<entry, sends, policyVars, scanVars, retryVars, mainVars>>

(***************************************************************************)
(* The run of either entry point                                           *)
(***************************************************************************)

Init ==
    /\ entry \in {"monitor_actions", "main"}
    /\ pc = "start"
    /\ exit_code = NoExit
    /\ events = {}
    /\ sends = <<>>
    /\ table = <<>>
    /\ probed = <<>>
    /\ readings = <<>>
    /\ files_found = FALSE
    /\ total_items = 0
    /\ used_selector = NoSelector
    /\ failed_rows = <<>>
    /\ item = 0
    /\ attempt = 0
    /\ result = NoResult
    /\ results = <<>>
    /\ history = <<>>
    /\ run = NewMonitorResult
    /\ notifier = FALSE
    /\ session = {}
    /\ pending = NoExit
    /\ handler = DefaultHandler
    /\ call = NoCall
    /\ rowkinds = PageRowKinds
    /\ rowfaults = {"none"}

Next ==
    \/ ActionsValidateEnv
    \/ ActionsLaunchAndFill
    \/ ActionsClickLogin
    \/ ActionsNavigate
    \/ ActionsTrySelector
    \/ ActionsCheckFound
    \/ RetryAttempt
    \/ RetryCheck
    \/ ActionsScreenshot
    \/ ActionsNotify
    \/ ActionsClose
    \/ ActionsExcept
    \/ MainLoadConfig
    \/ MainStartBrowser
    \/ CheckLogin
    \/ CheckNavigate
    \/ CheckScan
    \/ CheckScreenshot
    \/ CheckCaptureDetails
    \/ CheckTriggerRetries
    \/ MainSendSummary
    \/ MainInterrupt
    \/ MainExcept
    \/ MainFinally

Spec == Init /\ [][Next]_vars

(***************************************************************************)
(* The scan stage of either entry point, on pages with every kind of row   *)
(* and every fault of reading a row: the run has logged in and navigated   *)
(***************************************************************************)

InitScan ==
    /\ entry \in {"monitor_actions", "main"}
    /\ pc = "scan"
    /\ exit_code = NoExit
    /\ events = {"pipeline_started"}
    /\ sends = <<>>
    /\ table = <<>>
    /\ probed = <<>>
    /\ readings = <<>>
    /\ files_found = FALSE
    /\ total_items = 0
    /\ used_selector = NoSelector
    /\ failed_rows = <<>>
    /\ item = 0
    /\ attempt = 0
    /\ result = NoResult
    /\ results = <<>>
    /\ history = <<>>
    /\ run = NewMonitorResult
    /\ notifier \in (IF entry = "main" THEN BOOLEAN ELSE {FALSE})
    /\ session = AllResources
    /\ pending = NoExit
    /\ handler = DefaultHandler
    /\ call = NoCall
    /\ rowkinds = ScanRowKinds
    /\ rowfaults = RowFaults

NextScan ==
    \/ ActionsTrySelector
    \/ CheckScan

SpecScan == InitScan /\ [][NextScan]_vars

(***************************************************************************)
(* The RetryHandler policy on its own                                      *)
(***************************************************************************)

\* a caller asks should_retry(error, attempt)
ShouldRetryCall ==
    /\ entry = "policy"
    /\ \E error \in Faults, n \in 0..MaxAttemptArg :
         call' = [op |-> "should_retry", error |-> error, attempt |-> n,
                  ret |-> should_retry(error, n)]
    /\ UNCHANGED <<handler, rowkinds, rowfaults, entry, session, pc, exit_code, events, sends, scanVars,
                   retryVars, mainVars>>

\* a call of RetryHandler.classify_error
ClassifyErrorCall ==
    /\ entry = "policy"
    /\ \E error \in Faults :
         call' = [op |-> "classify_error", error |-> error,
                  ret |-> classify_error(error)]
    /\ UNCHANGED <<handler, rowkinds, rowfaults, entry, session, pc, exit_code, events, sends, scanVars,
                   retryVars, mainVars>>

InitPolicy ==
    /\ handler \in [max_attempts : 0..MaxConfigAttempts,
                    backoff_base : {2}, initial_delay : {1}]
    /\ call = NoCall
    /\ rowkinds = {}
    /\ rowfaults = {}
    /\ entry = "policy"
    /\ pc = "off"
    /\ exit_code = NoExit
    /\ events = {}
    /\ sends = <<>>
    /\ table = <<>>
    /\ probed = <<>>
    /\ readings = <<>>
    /\ files_found = FALSE
    /\ total_items = 0
    /\ used_selector = NoSelector
    /\ failed_rows = <<>>
    /\ item = 0
    /\ attempt = 0
    /\ result = NoResult
    /\ results = <<>>
    /\ history = <<>>
    /\ run = NewMonitorResult
    /\ notifier = FALSE
    /\ session = {}
    /\ pending = NoExit

NextPolicy ==
    \/ ShouldRetryCall
    \/ ClassifyErrorCall

SpecPolicy == InitPolicy /\ [][NextPolicy]_vars

(***************************************************************************)
(* RetryHandler.retry_sync / retry_async and get_backoff_delay              *)
(***************************************************************************)

\* everything but the handler call and the position in the retry loop
loopFrame == <<handler, rowkinds, rowfaults, entry, session, exit_code, events, sends,
               scanVars, retryVars, mainVars>>

\* the RetryResult of a failed retry loop: attempts is self.max_attempts
\* whatever the number of attempts made (lines 225-232, 283-290)
RetryFailure(c) ==
    [c EXCEPT !.ret = [success |-> FALSE, attempts |-> handler.max_attempts,
                       error |-> IF c.last_error = NoFault THEN "unknown"
                                 ELSE classify_error(c.last_error)]]

\* a caller asks get_backoff_delay(attempt)
GetBackoffDelayCall ==
    /\ entry = "retry" /\ pc = "idle"
    /\ \E n \in 1..MaxAttemptArg :
         call' = [op |-> "get_backoff_delay", attempt |-> n,
                  ret |-> get_backoff_delay(n)]
    /\ UNCHANGED <<pc, loopFrame>>

\* retry_sync / retry_async is entered: start_time, last_error = None and
\* the first iteration of range(1, max_attempts + 1), if there is one; the
\* call record and the position the entry leaves the loop in
LoopStart(mode) ==
    LET c == [op |-> mode, attempt |-> 1, tried |-> 0, delays |-> <<>>,
              classes |-> {}, last_error |-> NoFault,
              ret |-> [success |-> FALSE, attempts |-> 0, error |-> "pending"]]
    IN  IF handler.max_attempts >= 1
        THEN [call |-> c, pc |-> "try"]
        ELSE [call |-> RetryFailure(c), pc |-> "returned"]

\* one iteration of the loop of call c in which func returns (outcome
\* NoFault) or raises the fault `outcome`: the result is returned, or the
\* except clause breaks, or sleeps for the backoff delay and the loop goes
\* on. time.sleep raises ValueError on a negative delay, asyncio.sleep
\* returns at once.
LoopStep(c, outcome) ==
    IF outcome = NoFault
    THEN [call |-> [c EXCEPT !.tried = @ + 1,
                      !.ret = [success |-> TRUE, attempts |-> c.attempt,
                               error |-> "none"]],
          pc |-> "returned"]
    ELSE LET d == [c EXCEPT !.tried = @ + 1, !.last_error = outcome,
                     !.classes = @ \cup {classify_error(outcome)}]
             delay == get_backoff_delay(c.attempt)
         IN  IF ~should_retry(outcome, c.attempt)
             THEN [call |-> RetryFailure(d), pc |-> "returned"]
             ELSE IF c.op = "retry_sync" /\ delay < 0
             THEN [call |-> [d EXCEPT !.ret.error = "ValueError"], pc |-> "raised"]
             ELSE IF c.attempt + 1 <= handler.max_attempts
             THEN [call |-> [d EXCEPT !.delays = Append(@, delay), !.attempt = @ + 1],
                   pc |-> "try"]
             ELSE [call |-> RetryFailure([d EXCEPT !.delays = Append(@, delay)]),
                   pc |-> "returned"]

\* a call of retry_sync or of retry_async
RetryLoopStart ==
    /\ entry = "retry" /\ pc = "idle"
    /\ \E mode \in {"retry_sync", "retry_async"} :
         \E entered \in {LoopStart(mode)} :
            call' = entered.call /\ pc' = entered.pc
    /\ UNCHANGED loopFrame

\* one iteration of the loop, whatever func does
RetryLoopAttempt ==
    /\ entry = "retry" /\ pc = "try"
    /\ \E outcome \in Faults \cup {NoFault} :
         \E stepped \in {LoopStep(call, outcome)} :
            call' = stepped.call /\ pc' = stepped.pc
    /\ UNCHANGED loopFrame

InitBackoff ==
    /\ handler \in [max_attempts : 0..MaxConfigAttempts,
                    backoff_base : ConfigBases, initial_delay : ConfigDelays]
    /\ call = NoCall
    /\ rowkinds = {}
    /\ rowfaults = {}
    /\ entry = "retry"
    /\ pc = "idle"
    /\ exit_code = NoExit
    /\ events = {}
    /\ sends = <<>>
    /\ table = <<>>
    /\ probed = <<>>
    /\ readings = <<>>
    /\ files_found = FALSE
    /\ total_items = 0
    /\ used_selector = NoSelector
    /\ failed_rows = <<>>
    /\ item = 0
    /\ attempt = 0
    /\ result = NoResult
    /\ results = <<>>
    /\ history = <<>>
    /\ run = NewMonitorResult
    /\ notifier = FALSE
    /\ session = {}
    /\ pending = NoExit

NextBackoff == GetBackoffDelayCall \/ RetryLoopStart \/ RetryLoopAttempt

SpecBackoff == InitBackoff /\ [][NextBackoff]_vars

(***************************************************************************)
(* Properties                                                              *)
(***************************************************************************)

\* the run has ended
Exited == pc = "exited"

\* the history is that of an item whose result has been recorded: the
\* stage is over, or the next item has not logged an attempt yet
ItemRecorded ==
    /\ entry = "monitor_actions"
    /\ results # <<>>
    /\ pc \in {"attempt", "check"} => attempt = 1 /\ item = Len(results) + 1

LastResult == results[Len(results)]

\* every attempt executed for the item re-read a row that was still failed
NeverCleared ==
    /\ history # <<>>
    /\ \A i \in 1..Len(history) : history[i] = "still_failed"

\* C1: in retry_failed_items no item is given more than MAX_RETRIES
\* attempts, neither as executed nor as recorded; an item whose every
\* attempt found the menu and the retry control and re-read a row that still
\* carried a failure marker ends as max_retries_reached with
\* attempts = MAX_RETRIES.
C1_RetryBounded ==
    /\ attempt <= MAX_RETRIES
    /\ Len(history) <= MAX_RETRIES
    /\ result.attempts <= MAX_RETRIES
    /\ \A k \in 1..Len(results) : results[k].attempts <= MAX_RETRIES
    /\ (ItemRecorded /\ NeverCleared) =>
          /\ LastResult.final_status = "max_retries_reached"
          /\ LastResult.attempts = MAX_RETRIES
          /\ Len(history) = MAX_RETRIES
          /\ ~LastResult.success

\* C1 witness: an item was recorded after MAX_RETRIES attempts that all
\* left it failed
C1_Witness ==
    /\ ItemRecorded /\ NeverCleared
    /\ LastResult.attempts = MAX_RETRIES

\* C2: at most one webhook send call is made in a run, on every exit path.
C2_AtMostOneSend == Len(sends) <= 1

\* C3: a run that started the pipeline and was not interrupted has made
\* exactly one send when it exits, terminal failures included (with main.py
\* when the notifier is enabled).
C3_ReportExactlyOnce ==
    (/\ Exited
     /\ "pipeline_started" \in events
     /\ "interrupt" \notin events
     /\ entry = "main" => notifier)
    => Len(sends) = 1

\* events that make a run a system / infrastructure error
SystemErrors ==
    {"config_error", "login_failed", "nav_failed", "table_not_found", "fault"}

\* C4: the exit code is 130 for an interrupted run, 1 for a run with a
\* system error (login, navigation, table discovery, uncaught fault), 0 for a
\* completed run, and nothing else.
C4_ExitCodeMapping ==
    Exited =>
      /\ exit_code \in {0, 1, 130}
      /\ exit_code = 130 <=> "interrupt" \in events
      /\ ("interrupt" \notin events /\ events \cap SystemErrors # {}) => exit_code = 1
      /\ exit_code = 0 => "stages_done" \in events
      /\ ("interrupt" \notin events /\ events \cap SystemErrors = {}
            /\ "send_fault" \notin events) => exit_code = 0

\* C5: a run whose scan and retry stages completed exits with the same
\* code, 0, whether the send succeeded, was rejected or raised.
C5_SendFaultKeepsExit ==
    (/\ Exited
     /\ "stages_done" \in events
     /\ "interrupt" \notin events
     /\ "fault" \notin events)
    => exit_code = 0

\* C6: when every candidate selector yields zero rows, a run that meets no
\* other fault (and, with main.py, has its notifier enabled) ends with exit
\* code 1, runs no screenshot, evidence or retry stage, and makes exactly one
\* send, the error notification.
C6_NoTableFound ==
    (/\ Exited
     /\ "table_not_found" \in events
     /\ events \cap {"interrupt", "fault", "send_fault"} = {}
     /\ entry = "main" => notifier)
    => /\ exit_code = 1
       /\ events \cap {"screenshot", "evidence", "retry_stage"} = {}
       /\ Len(sends) = 1
       /\ sends[1].kind = "error"

\* the scan of monitor_actions.main is over
ActionsScanned == entry = "monitor_actions" /\ pc = "scanned"

\* C7: the selectors are probed in list order, each at most once and none
\* after the first one that matched rows; the scan uses that selector, its
\* row count and its rows, whatever number of zero-match candidates came
\* before it; when none matches nothing is found.
C7_FirstNonzeroSelector ==
    entry = "monitor_actions" =>
      /\ Len(probed) <= Len(selectors_to_try)
      /\ \A k \in 1..Len(probed) : probed[k].selector = selectors_to_try[k]
      /\ \A k \in 1..(Len(probed) - 1) : probed[k].count = 0
      /\ ActionsScanned =>
           IF \E k \in 1..Len(probed) : probed[k].count > 0
           THEN /\ files_found
                /\ used_selector = probed[Len(probed)].selector
                /\ total_items = probed[Len(probed)].count
                /\ total_items = Len(table)
                /\ \A j \in 1..Len(failed_rows) :
                     /\ failed_rows[j].index < total_items
                     /\ failed_rows[j].row = table[failed_rows[j].index + 1].id
           ELSE /\ ~files_found
                /\ Len(probed) = Len(selectors_to_try)
                /\ used_selector = NoSelector
                /\ total_items = 0
                /\ failed_rows = <<>>

\* C7 witness: the scan settled on a selector that came after a zero-match
\* candidate and found failed rows with it
C7_Witness ==
    /\ ActionsScanned /\ files_found
    /\ Len(probed) >= 2
    /\ used_selector = selectors_to_try[Len(probed)]
    /\ failed_rows # <<>>

\* the scan of either entry point is over and the failed list is final
ScanDone ==
    \/ ActionsScanned /\ files_found
    \/ entry = "main" /\ pc = "screenshot"

\* the failed list of the entry point that ran
FailedList == IF entry = "main" THEN run.failed_items ELSE failed_rows

\* the positions of the scanned rows whose text was read and has a marker
MarkedRows ==
    {i \in 1..Len(table) :
        /\ readings[i] \notin {"text", "unread"}
        /\ ContainsAny(table[i].text, failure_indicators)}

\* C8: the failed list holds exactly the scanned rows whose text contains
\* a failure marker (case-sensitive substring), one entry each, a row
\* without a first cell or without a name included.
C8_FailedIffMarker ==
    ScanDone =>
      /\ {FailedList[j].row : j \in 1..Len(FailedList)}
            = {table[i].id : i \in MarkedRows}
      /\ Len(FailedList) = Cardinality(MarkedRows)

\* C9: every failed item of the scan carries a non-empty identifier, every
\* marked row is in the failed list handed to the retry stage, and a row
\* whose first cell is missing, blank or unreadable and that yields no line
\* or token is named by the positional tag of its index.
C9_IdentifierTotal ==
    ScanDone =>
      /\ \A j \in 1..Len(FailedList) :
           /\ FailedList[j].file_name # <<>>
           /\ FailedList[j].file_name # None
      /\ \A i \in MarkedRows : \E j \in 1..Len(FailedList) :
           /\ FailedList[j].row = table[i].id
           /\ (/\ \/ table[i].cell = NoCell
                  \/ Strip(table[i].cell) = <<>>
                  \/ readings[i] = "cell"
               /\ SplitWords(table[i].text) = <<>>)
              => FailedList[j].file_name \in {RowTag(i - 1), FileTag(i - 1)}

\* C10: should_retry(fault, attempt) is false when attempt >= max_attempts
\* or the fault is classified as one of the four permanent kinds, true
\* otherwise.
C10_ShouldRetry ==
    call.op = "should_retry" =>
      call.ret = ~(\/ call.attempt >= handler.max_attempts
                   \/ classify_error(call.error) \in PermanentErrorTypes)

\* C10 witness: should_retry refused a permanent fault on an attempt below
\* the limit
C10_Witness ==
    /\ call.op = "should_retry"
    /\ call.attempt >= 1
    /\ call.attempt < handler.max_attempts
    /\ classify_error(call.error) \in PermanentErrorTypes
    /\ call.ret = FALSE

\* the retry loop has returned its failure for the configuration of
\* Scenario D, every fault met having been classified network_timeout
ScenarioD ==
    /\ pc = "returned"
    /\ call.op \in {"retry_sync", "retry_async"}
    /\ handler = [max_attempts |-> 3, backoff_base |-> 2, initial_delay |-> 1]
    /\ ~call.ret.success
    /\ call.classes = {"network_timeout"}

\* C11: with max_attempts 3, initial_delay 1 and backoff_base 2, an
\* operation failing on every attempt with a network_timeout fault has been
\* followed by the delays 1, 2, 4, in that order, when the failure is returned.
C11_DelaysOneTwoFour == ScenarioD => call.delays = <<1, 2, 4>>

\* C12: for every accepted configuration and attempts 1 <= a < b,
\* get_backoff_delay(a) <= get_backoff_delay(b), and no delay returned
\* exceeds 60.
C12_BackoffMonotoneCapped ==
    call.op = "get_backoff_delay" =>
      /\ call.ret <= BackoffCap
      /\ \A b \in 1..MaxAttemptArg :
            call.attempt < b => call.ret <= get_backoff_delay(b)

\* C13 as stated: get_backoff_delay(1) equals initial_delay for every
\* configuration.
C13_FirstDelayIsInitial ==
    (call.op = "get_backoff_delay" /\ call.attempt = 1)
    => call.ret = handler.initial_delay

\* C13 amended: get_backoff_delay(1) is initial_delay capped at 60, so it
\* equals initial_delay exactly when initial_delay <= 60.
C13_FirstDelayIsInitialCapped ==
    (call.op = "get_backoff_delay" /\ call.attempt = 1)
    => /\ call.ret = (IF handler.initial_delay <= 60 THEN handler.initial_delay ELSE 60)
       /\ (call.ret = handler.initial_delay) <=> (handler.initial_delay <= 60)

\* C13 witness: get_backoff_delay(1) was asked with a backoff base other
\* than 1 and returned the initial delay
C13_Witness ==
    /\ call.op = "get_backoff_delay" /\ call.attempt = 1
    /\ handler.backoff_base \notin {1}
    /\ handler.initial_delay = 2
    /\ call.ret = 2

\* the attempt outcomes in which the menu or the retry control of the row
\* was not found
ControlNotFound == {"menu_not_found", "retry_option_not_found", "escape_fault"}

\* C14: an attempt in which the context menu or the retry control is not
\* found is the item's last: the item is recorded as action-unavailable
\* (menu_not_found / retry_option_not_found) with that attempt's number, 1
\* when it is the first, and a run without other faults still exits with 0.
C14_ActionUnavailable ==
    /\ \A i \in 1..Len(history) :
         history[i] \in ControlNotFound =>
           /\ i = Len(history)
           /\ ItemRecorded
           /\ LastResult.final_status \in {"menu_not_found", "retry_option_not_found"}
           /\ LastResult.attempts = i
           /\ ~LastResult.success
    /\ (/\ entry = "monitor_actions" /\ Exited /\ "retry_stage" \in events
        /\ events \cap {"fault", "send_fault"} = {}) => exit_code = 0

\* the item just recorded is still the one the table was last touched for
JustRecorded == ItemRecorded /\ pc # "check"

\* C15: an item is recorded as success exactly when an attempt n <=
\* MAX_RETRIES activated the retry control and re-read a row without failure
\* marker at the item's index; it then records attempts = n, that attempt
\* is its last, and success is true in no other final state.
C15_SuccessIffCleared ==
    /\ \A k \in 1..Len(results) :
         results[k].success <=> results[k].final_status = "success"
    /\ \A i \in 1..Len(history) : history[i] = "success" => i = Len(history)
    /\ (ItemRecorded /\ history # <<>>) =>
         /\ LastResult.success <=> history[Len(history)] = "success"
         /\ LastResult.success =>
              /\ LastResult.attempts = Len(history)
              /\ LastResult.attempts <= MAX_RETRIES
    /\ (JustRecorded /\ LastResult.success) =>
         LET idx == failed_rows[Len(results)].index + 1
         IN  /\ idx <= Len(table)
             /\ ~ContainsAny(table[idx].text, failure_indicators)

\* C15 witness: two items were both recorded as success after one attempt
C15_Witness ==
    /\ entry = "monitor_actions"
    /\ Len(results) = 2
    /\ \A k \in 1..2 : results[k].success /\ results[k].attempts = 1
                        /\ results[k].final_status = "success"

\* C16: whatever the outcomes of the per-item remediation (still failed,
\* row disappeared, action unavailable, a fault inside an attempt or inside
\* the retry stage), the run goes on after the retry stage as a completed
\* run: success is true with no error, and unless another stage faults or the
\* run is interrupted the exit code is 0.
C16_RetryNeverEscalates ==
    "retry_stage" \in events =>
      /\ entry = "main" =>
           /\ run.success /\ run.error = NoError
           /\ (Exited /\ "interrupt" \notin events) => exit_code = 0
      /\ entry = "monitor_actions" =>
           /\ pc = "screenshot" =>
                /\ exit_code = NoExit
                /\ "fault" \notin events
                /\ Len(results) = Len(failed_rows)
           /\ (Exited /\ events \cap {"fault", "send_fault"} = {}) => exit_code = 0

\* C16 witness: a run in which an item's last attempt raised, another
\* outcome was not a success either, has exited with 0
C16_Witness ==
    /\ entry = "monitor_actions" /\ Exited /\ exit_code = 0
    /\ \E k \in 1..Len(results) : results[k].final_status = "error"
    /\ \A k \in 1..Len(results) : ~results[k].success

\* C17: the card sent by main.py carries a status that tells ok,
\* has-failures and error apart: a run with success false or an error set is
\* never sent with the no-failures status, a run with failed items is sent as
\* has-failures, and the no-failures status is sent only for a completed run
\* without failed items.
C17_StatusDistinguishes ==
    entry = "main" =>
      \A i \in 1..Len(sends) :
        sends[i].kind = "report" =>
          /\ (~run.success \/ run.error # NoError)
                => sends[i].card.status_text # "No Failures"
          /\ run.failed_items # <<>>
                => sends[i].card.status_text = "Failures Detected"
          /\ sends[i].card.status_text = "No Failures"
                => run.success /\ run.failed_items = <<>>

\* C19: when the process exits after the browser session was started, also
\* part-way, nothing of the session is left open: page, context, browser and
\* driver are closed on every exit path, also when closing one of them raises.
C19_SessionReleased == Exited => session = {}

\* the attempt that found the row index out of range is the item's last and
\* the item is recorded as row_disappeared with that attempt's number
RowDisappearedTerminal ==
    \A i \in 1..Len(history) :
      history[i] = "row_disappeared" =>
        /\ i = Len(history)
        /\ ItemRecorded
        /\ LastResult.final_status = "row_disappeared"
        /\ LastResult.attempts = i

\* the results the run summary should count as unresolved
Unresolved ==
    {k \in 1..Len(results) :
        results[k].final_status \notin {"success", "row_disappeared"}}

\* C20: an item whose row index is out of range of the re-queried table
\* ends as row_disappeared with no further attempt, and the run summary does
\* not count it among the still-failed items.
C20_RowDisappearedResolved ==
    entry = "monitor_actions" =>
      /\ RowDisappearedTerminal
      /\ \A i \in 1..Len(sends) :
           sends[i].kind = "report" =>
             sends[i].card.still_failed = Cardinality(Unresolved)

\* the outcomes logged for an attempt that ended in the except clause
Faulted == {"fault", "escape_fault"}

InAttempt == entry = "monitor_actions" /\ pc \in {"attempt", "check"}

\* the final_status values an item is recorded with
TerminalStatuses ==
    {"success", "row_disappeared", "menu_not_found",
     "retry_option_not_found", "max_retries_reached", "error"}

\* C22: the retry stage is strictly sequential: the attempt in progress is
\* an attempt of the first item without recorded result, so every earlier
\* item has been recorded in a terminal state; a step of the stage goes on
\* with the same attempt, or starts the next attempt of the same item with
\* nothing recorded, or records the item's result and only then starts
\* attempt 1 of the next item or leaves the stage.
C22_StrictlySequential ==
    /\ [](InAttempt =>
            /\ item = Len(results) + 1
            /\ item <= Len(failed_rows)
            /\ attempt \in 1..MAX_RETRIES
            /\ \A k \in 1..Len(results) :
                 /\ results[k].final_status \in TerminalStatuses
                 /\ results[k].file_name = failed_rows[k].file_name)
    /\ [][InAttempt =>
            \/ /\ InAttempt'
               /\ <<item, attempt, results>>' = <<item, attempt, results>>
               /\ pc = "attempt" /\ pc' = "check"
            \/ /\ InAttempt'
               /\ item' = item /\ attempt' = attempt + 1
               /\ results' = results /\ pc' = "attempt"
            \/ /\ InAttempt'
               /\ item' = item + 1 /\ attempt' = 1 /\ pc' = "attempt"
               /\ Len(results') = item
               /\ SubSeq(results', 1, Len(results)) = results
            \/ /\ ~InAttempt'
               /\ Len(results') = item
               /\ item = Len(failed_rows)
            \/ /\ pc' \in {"except", "exited"}
               /\ results' = results]_vars

\* a later attempt of the second item is in progress after the first item
\* has used several attempts and has been recorded
C22_Witness ==
    /\ InAttempt
    /\ pc = "check"
    /\ item = 2
    /\ attempt = 2
    /\ Len(results) = 1
    /\ results[1].attempts > 1

\* the position, in the table as re-queried now, of the item's stored index
RowPosition == failed_rows[item].index + 1

\* the outcome logged by the step that has just been taken
LoggedNow == history'[Len(history')]

\* C23: the retry stage finds its row by the stored ordinal index in the
\* table as it is when queried, never through the handle captured by the
\* scan: the click of an attempt acts on the row at that index of the table
\* queried in the attempt, and the status read after the click is that of
\* the row at that index of the table as the click left it.
C23_RowsRequeried ==
    [][InAttempt =>
         /\ (pc = "attempt" /\ pc' = "check") =>
              /\ RowPosition <= Len(table)
              /\ \/ table' = table
                 \/ table' = [table EXCEPT ![RowPosition].text = ProcessedText]
                 \/ table' = RemoveAt(table, RowPosition)
         /\ (pc = "attempt" /\ pc' # "check") => table' = table
         /\ (pc = "attempt" /\ RowPosition > Len(table)) =>
              LoggedNow \in {"row_disappeared", "fault"}
         /\ pc = "check" =>
              /\ table' = table
              /\ LoggedNow = "success" =>
                   /\ RowPosition <= Len(table)
                   /\ ~is_failed(table[RowPosition].text)
              /\ LoggedNow = "still_failed" =>
                   /\ RowPosition <= Len(table)
                   /\ is_failed(table[RowPosition].text)
              /\ LoggedNow = "row_disappeared" => RowPosition > Len(table)
              /\ LoggedNow \in {"success", "still_failed",
                                "row_disappeared", "fault"}]_vars

\* the retry control has been activated on, and has cleared, a row that is
\* not the element the scan captured for the item: the rows moved up after
\* an earlier click removed one
C23_Witness ==
    /\ InAttempt
    /\ pc = "check"
    /\ RowPosition <= Len(table)
    /\ table[RowPosition].id # failed_rows[item].row
    /\ table[RowPosition].text = ProcessedText

\* the rows the order of the retry stage is checked on: a processed row and
\* failed rows with different file names and different markers
OrderRowKinds == PageRowKinds \cup {
    [text |-> <<"e", "\t", "e", "r", "r", "o", "r">>, cell |-> <<"e">>] }

\* monitor_actions.main from the scan of the opened page to the return of
\* retry_failed_items
InitRetryStage ==
    /\ entry = "monitor_actions"
    /\ pc = "scan"
    /\ exit_code = NoExit
    /\ events = {"pipeline_started"}
    /\ sends = <<>>
    /\ table = <<>>
    /\ probed = <<>>
    /\ readings = <<>>
    /\ files_found = FALSE
    /\ total_items = 0
    /\ used_selector = NoSelector
    /\ failed_rows = <<>>
    /\ item = 0
    /\ attempt = 0
    /\ result = NoResult
    /\ results = <<>>
    /\ history = <<>>
    /\ run = NewMonitorResult
    /\ notifier = FALSE
    /\ session = AllResources
    /\ pending = NoExit
    /\ handler = DefaultHandler
    /\ call = NoCall
    /\ rowkinds = OrderRowKinds
    /\ rowfaults = {"none"}

NextRetryStage ==
    \/ ActionsTrySelector
    \/ ActionsCheckFound
    \/ RetryAttempt
    \/ RetryCheck

SpecRetryStage == InitRetryStage /\ [][NextRetryStage]_vars

\* retry_failed_items has returned to monitor_actions.main
RetryStageReturned ==
    entry = "monitor_actions" /\ pc \in {"screenshot", "notify", "close"}

\* C24: the failed list of monitor_actions is in strictly increasing row
\* index, the index being the row's position in the scanned table; the
\* results recorded so far are those of the first items of the list, one
\* each and in the order of the list, and when the retry stage has returned
\* there is exactly one result per failed item.
C24_DomOrderKept ==
    entry = "monitor_actions" =>
      /\ \A j \in 1..Len(failed_rows) :
           /\ failed_rows[j].index = failed_rows[j].row - 1
           /\ \A k \in 1..(j - 1) : failed_rows[k].index < failed_rows[j].index
      /\ Len(results) <= Len(failed_rows)
      /\ \A k \in 1..Len(results) :
           results[k].file_name = failed_rows[k].file_name
      /\ InAttempt => result.file_name = failed_rows[item].file_name
      /\ RetryStageReturned => Len(results) = Len(failed_rows)

\* the retry stage has returned the results of two failed items with
\* different names
C24_Witness ==
    /\ RetryStageReturned
    /\ Len(failed_rows) = 2
    /\ Len(results) = 2
    /\ failed_rows[1].file_name # failed_rows[2].file_name
    /\ results[1].file_name = failed_rows[1].file_name
    /\ results[2].file_name = failed_rows[2].file_name

\* a remediation action of the retry stage has been taken: monitor_actions
\* has just clicked a retry control, KBMonitor has run _trigger_retries
RemediationStarted ==
    \/ entry = "monitor_actions" /\ pc = "check"
    \/ entry = "main" /\ "retry_stage" \in events

\* C25: in a run whose scan succeeded the full-page screenshot is there
\* before the first remediation action of the retry stage, and a run that
\* completed its stages has captured it, with or without failed items.
C25_ScreenshotBeforeRetries ==
    /\ RemediationStarted => "screenshot" \in events
    /\ "stages_done" \in events => "screenshot" \in events

\* C26: a failed login or a failed navigation ends the pipeline: no table
\* is queried, no screenshot or evidence is taken and no retry stage runs
\* after it, no navigation follows a failed login, the run result of
\* KBMonitor has success false and an error, and the process does not exit
\* with 0.
C26_StagesTerminal ==
    /\ ("login_failed" \in events \/ "nav_failed" \in events) =>
         /\ probed = <<>> /\ table = <<>>
         /\ failed_rows = <<>> /\ results = <<>>
         /\ pc \notin {"navigate", "scan", "scanned", "screenshot",
                       "details", "retries", "attempt", "check"}
         /\ events \cap {"screenshot", "evidence", "retry_stage",
                         "stages_done"} = {}
         /\ entry = "main" =>
              /\ ~run.success
              /\ run.error # NoError
              /\ run.failed_items = <<>>
              /\ run.screenshots_taken = 0
         /\ Exited => exit_code # 0
    /\ "login_failed" \in events => "nav_failed" \notin events

\* a run of main.py whose navigation failed has reported and exited
C26_Witness ==
    /\ entry = "main"
    /\ Exited
    /\ "nav_failed" \in events
    /\ "login_failed" \notin events
    /\ Len(sends) = 1
    /\ exit_code = 1

\* the failed items of the run whose evidence capture left no screenshot
WithoutEvidence ==
    {i \in 1..Len(run.failed_items) : ~run.failed_items[i].screenshot_path}

\* C27: evidence capture is best effort: whatever items it failed for, the
\* capture has gone through the whole failed list, the retry stage follows
\* it and gets the whole list, and the run ends with success true, no error
\* and, unless it is interrupted, exit code 0.
C27_EvidenceBestEffort ==
    (entry = "main" /\ "evidence" \in events) =>
      /\ run.failed_items # <<>>
      /\ run.screenshots_taken <= 1 + Len(run.failed_items)
           - Cardinality(WithoutEvidence)
      /\ pc = "retries" \/ "retry_stage" \in events \/ "interrupt" \in events
      /\ "retry_stage" \in events =>
           /\ run.success
           /\ run.error = NoError
           /\ run.retries_triggered <= Len(run.failed_items)
      /\ (Exited /\ "interrupt" \notin events) => exit_code = 0

\* a run in which the capture failed for the first failed item and worked
\* for the second has retried both and exited with 0
C27_Witness ==
    /\ entry = "main"
    /\ Exited
    /\ exit_code = 0
    /\ "retry_stage" \in events
    /\ Len(run.failed_items) = 2
    /\ WithoutEvidence = {1}
    /\ run.retries_triggered = 2

\* C28: the execution time of the run result covers the notification call:
\* it is not yet fixed while the summary is to be sent, and once the summary
\* has been sent it is at least the time at which the send ended.
C28_TimeCoversNotification ==
    entry = "main" =>
      /\ pc = "report" => run.execution_time = 0
      /\ \A k \in 1..Len(sends) :
           sends[k].kind = "report" => run.execution_time >= StageEnd.report

\* the kind classify_error returns for each permanent keyword, in the order
\* of PERMANENT_ERROR_PATTERNS
PermanentKinds ==
    <<"authentication_failed", "authentication_failed", "permission_denied",
      "permission_denied", "invalid_input", "permission_denied", "not_found",
      "not_found", "invalid_input">>

\* the kind classify_error returns for each transient keyword, in the order
\* of TEMPORARY_ERROR_PATTERNS
TemporaryKinds ==
    <<"network_timeout", "network_timeout", "rate_limited", "rate_limited",
      "server_error", "server_error", "server_error", "server_error",
      "network_timeout", "network_timeout", "browser_crashed",
      "browser_crashed", "browser_crashed">>

\* the keywords of a list found in the fault's message or type name
KeywordsIn(patterns, error) ==
    {k \in 1..Len(patterns) :
        \/ Contains(Lower(error.message), patterns[k])
        \/ Contains(Lower(error.type_name), patterns[k])}

\* C29: classify_error looks for permanent keywords first and the first
\* keyword of the list that matches decides: a fault with a permanent
\* keyword in its message or type name gets the permanent kind of the first
\* such keyword, transient keywords or not; without permanent keyword it
\* gets the transient kind of the first transient keyword that matches;
\* without any keyword it is unknown.
C29_PermanentBeforeTransient ==
    call.op = "classify_error" =>
      LET perm == KeywordsIn(PERMANENT_ERROR_PATTERNS, call.error)
          temp == KeywordsIn(TEMPORARY_ERROR_PATTERNS, call.error)
      IN  /\ perm # {} =>
               /\ call.ret \in PermanentErrorTypes
               /\ \E k \in perm :
                    /\ \A j \in perm : k <= j
                    /\ call.ret = PermanentKinds[k]
          /\ (perm = {} /\ temp # {}) =>
               /\ call.ret \in TemporaryErrorTypes \ {"unknown"}
               /\ \E k \in temp :
                    /\ \A j \in temp : k <= j
                    /\ call.ret = TemporaryKinds[k]
          /\ (perm = {} /\ temp = {}) => call.ret = "unknown"

\* a fault with permanent keywords of different kinds and a transient
\* keyword has been classified by the first permanent one
C29_Witness ==
    /\ call.op = "classify_error"
    /\ Cardinality({PermanentKinds[k] :
                      k \in KeywordsIn(PERMANENT_ERROR_PATTERNS, call.error)}) > 1
    /\ KeywordsIn(TEMPORARY_ERROR_PATTERNS, call.error) # {}
    /\ call.ret = "authentication_failed"

\* the retry loop has ended: it returned its RetryResult or left with a fault
RetryLoopEnded ==
    /\ call.op \in {"retry_sync", "retry_async"}
    /\ pc \in {"returned", "raised"}

\* C30: the retry loop invokes the operation at most max_attempts times; a
\* success is returned at the first invocation that does not raise; a fault
\* that is not permanent is followed, while the limit is not reached, by the
\* backoff delay of its attempt and the next invocation, so a loop that ends
\* without success ends on a permanent fault or with the limit reached; the
\* delays lie between consecutive invocations only, none after the last.
C30_RetryLoop ==
    call.op \in {"retry_sync", "retry_async"} =>
      /\ call.tried <= handler.max_attempts
      /\ \A i \in 1..Len(call.delays) : call.delays[i] = get_backoff_delay(i)
      /\ pc = "try" =>
           /\ call.attempt = call.tried + 1
           /\ Len(call.delays) = call.tried
           /\ call.classes \cap PermanentErrorTypes = {}
      /\ RetryLoopEnded =>
           /\ Len(call.delays) = (IF call.tried = 0 THEN 0 ELSE call.tried - 1)
           /\ call.ret.success =>
                /\ call.ret.attempts = call.tried
                /\ call.tried >= 1
           /\ ~call.ret.success =>
                \/ call.tried = handler.max_attempts
                \/ classify_error(call.last_error) \in PermanentErrorTypes

\* the navigation stage of KBMonitor has been declared failed on a fault
\* that classify_error does not take for permanent
TransientNavigationFailure ==
    /\ entry = "main"
    /\ "nav_failed" \in events
    /\ call.op = "goto"
    /\ classify_error(call.last_error) \notin PermanentErrorTypes

\* C31: a navigation fault classified as transient is retried under the
\* generic policy before the stage is declared failed: when the navigation
\* stage has failed on such a fault, page.goto has been tried max_attempts
\* times.
C31_NavigationRetried ==
    TransientNavigationFailure => call.tried = handler.max_attempts

\* the first cell of the row was read and holds more than whitespace
CellUsable(row, fault) ==
    fault # "cell" /\ row.cell # NoCell /\ Strip(row.cell) # <<>>

\* the lines of the row text that are neither blank nor a header label
NamingLines(row) ==
    LET lines == SplitOn(row.text, "\n")
    IN  {k \in 1..Len(lines) :
            Strip(lines[k]) # <<>> /\ Strip(lines[k]) \notin HeaderLabels}

\* the first tab-separated field of line k of the row text
LeadingField(row, k) ==
    Strip(SplitOn(Strip(SplitOn(row.text, "\n")[k]), "\t")[1])

\* the position in the scanned table of the row of failed item j
RowOf(j) == CHOOSE i \in 1..Len(table) : table[i].id = run.failed_items[j].row

\* the failed items of KBMonitor's scan are there
KBScanned == entry = "main" /\ pc = "screenshot"

\* C32 as stated: the identifier is the stripped first cell when there is
\* one that is not blank, otherwise the first line of the row text that is
\* neither blank nor a header label, otherwise the first token of the text.
C32_OrderedFallback ==
    KBScanned =>
      \A j \in 1..Len(run.failed_items) :
        LET row == table[RowOf(j)]
            lines == SplitOn(row.text, "\n")
            naming == NamingLines(row)
        IN  run.failed_items[j].file_name =
              IF CellUsable(row, readings[RowOf(j)]) THEN Strip(row.cell)
              ELSE IF naming # {}
                   THEN Strip(lines[CHOOSE k \in naming : \A m \in naming : k <= m])
              ELSE IF SplitWords(row.text) # <<>> THEN SplitWords(row.text)[1]
              ELSE RowTag(RowOf(j) - 1)

\* C32 amended: the identifier is the stripped first cell when the cell was
\* read and is not blank; otherwise the first tab-separated field, stripped,
\* of the first line that is neither blank nor a header label and whose
\* field is longer than 3 characters; otherwise the first token of the text.
C32_OrderedFallbackByField ==
    KBScanned =>
      \A j \in 1..Len(run.failed_items) :
        LET row == table[RowOf(j)]
            long == {k \in NamingLines(row) : Len(LeadingField(row, k)) > 3}
        IN  run.failed_items[j].file_name =
              IF CellUsable(row, readings[RowOf(j)]) THEN Strip(row.cell)
              ELSE IF long # {}
                   THEN LeadingField(row, CHOOSE k \in long : \A m \in long : k <= m)
              ELSE IF SplitWords(row.text) # <<>> THEN SplitWords(row.text)[1]
              ELSE RowTag(RowOf(j) - 1)

\* a failed row without first cell has been named by the field of its third
\* line, its first line being a header label and its second too short
C32_Witness ==
    /\ KBScanned
    /\ \E j \in 1..Len(run.failed_items) :
         /\ table[RowOf(j)].cell = NoCell
         /\ 1 \notin NamingLines(table[RowOf(j)])
         /\ 2 \in NamingLines(table[RowOf(j)])
         /\ run.failed_items[j].file_name = LeadingField(table[RowOf(j)], 3)

(***************************************************************************)
(* The image attachments of the summary                                    *)
(***************************************************************************)

\* the longest result.screenshots_taken the uploads are checked on
MaxScreenshots == 6

UploadCandidatesAll(screenshots) == screenshots

\* lark_notifier.py line 212: result.screenshots_taken[:4]
UploadCandidates(screenshots) == Take(screenshots, MaxCardImages)

\* lark_notifier.py lines 212-217: the image keys of the uploads that
\* worked, in the order of the uploads; uploaded[p] tells whether the upload
\* of screenshot p returned a key
RECURSIVE UploadImages(_, _)
UploadImages(candidates, uploaded) ==
    IF candidates = <<>> THEN <<>>
    ELSE (IF uploaded[Head(candidates)]
          THEN <<[image_key |-> Head(candidates)]>> ELSE <<>>)
           \o UploadImages(Tail(candidates), uploaded)

\* lark_notifier.py lines 311-319: one img element per image key
ImageElements(image_keys) ==
    [k \in 1..Len(image_keys) |->
        [tag |-> "img", img_key |-> image_keys[k].image_key]]

\* LarkNotifier.send_summary on a result with n screenshots, named 1..n in
\* capture order
SendSummaryImages ==
    /\ entry = "report"
    /\ \E n \in 0..MaxScreenshots :
       \E uploaded \in [1..n -> BOOLEAN] :
         LET screenshots == [p \in 1..n |-> p]
             candidates == UploadCandidates(screenshots)
             image_keys == UploadImages(candidates, uploaded)
         IN  call' = [op |-> "send_summary", screenshots |-> screenshots,
                      uploaded |-> uploaded, tried |-> candidates,
                      images |-> ImageElements(image_keys)]
    /\ UNCHANGED <<handler, rowkinds, rowfaults, entry, session, pc, exit_code,
                   events, sends, scanVars, retryVars, mainVars>>

InitReport ==
    /\ handler = DefaultHandler
    /\ call = NoCall
    /\ rowkinds = {}
    /\ rowfaults = {}
    /\ entry = "report"
    /\ pc = "off"
    /\ exit_code = NoExit
    /\ events = {}
    /\ sends = <<>>
    /\ table = <<>>
    /\ probed = <<>>
    /\ readings = <<>>
    /\ files_found = FALSE
    /\ total_items = 0
    /\ used_selector = NoSelector
    /\ failed_rows = <<>>
    /\ item = 0
    /\ attempt = 0
    /\ result = NoResult
    /\ results = <<>>
    /\ history = <<>>
    /\ run = NewMonitorResult
    /\ notifier = TRUE
    /\ session = {}
    /\ pending = NoExit

NextReport == SendSummaryImages

SpecReport == InitReport /\ [][NextReport]_vars

\* C33: the summary carries at most 4 images: whatever the number of
\* screenshots of the result, only the first 4 in capture order are
\* uploaded, and the card has one img element per upload that worked, in
\* that order, never more than 4.
C33_AtMostFourImages ==
    call.op = "send_summary" =>
      LET n == Len(call.screenshots)
          first == IF n < 4 THEN n ELSE 4
          worked == {p \in 1..first : call.uploaded[p]}
      IN  /\ call.tried = [p \in 1..first |-> call.screenshots[p]]
          /\ Len(call.images) <= 4
          /\ Len(call.images) = Cardinality(worked)
          /\ {call.images[k].img_key : k \in 1..Len(call.images)} = worked
          /\ \A k \in 1..(Len(call.images) - 1) :
               call.images[k].img_key < call.images[k + 1].img_key

\* a result with more than 4 screenshots whose fifth upload would have
\* worked and whose second did not has been sent with 3 images
C33_Witness ==
    /\ call.op = "send_summary"
    /\ Len(call.screenshots) > 4
    /\ call.uploaded[5]
    /\ ~call.uploaded[2]
    /\ Len(call.images) = 3

\* retry_failed_items entered by monitor_actions.main (line 204) with the
\* rows the first selector found, at least one of which is failed
InitRetryLoop ==
    /\ entry = "monitor_actions"
    /\ pc = "attempt"
    /\ exit_code = NoExit
    /\ events = {"pipeline_started", "retry_stage"}
    /\ sends = <<>>
    /\ rowkinds = OrderRowKinds
    /\ rowfaults = {"none"}
    /\ table \in Tables
    /\ readings \in RowReadings(table)
    /\ probed = <<[selector |-> selectors_to_try[1], count |-> Len(table)]>>
    /\ files_found = TRUE
    /\ total_items = Len(table)
    /\ used_selector = selectors_to_try[1]
    /\ failed_rows = ActionsScanRows(table, readings, Len(table))
    /\ failed_rows # <<>>
    /\ item = 1
    /\ attempt = 1
    /\ result = NewResult(failed_rows[1])
    /\ results = <<>>
    /\ history = <<>>
    /\ run = NewMonitorResult
    /\ notifier = FALSE
    /\ session = AllResources
    /\ pending = NoExit
    /\ handler = DefaultHandler
    /\ call = NoCall

NextRetryLoop ==
    \/ RetryAttempt
    \/ RetryCheck

\* the retry stage alone, every step of which ends: each browser call of an
\* attempt returns or raises within its timeout
SpecRetryStageFair ==
    InitRetryLoop /\ [][NextRetryLoop]_vars /\ WF_vars(NextRetryLoop)

\* C34: the retry stage terminates: an attempt in progress leads to the
\* return of retry_failed_items; when it has returned every failed item has
\* one result, and each result is in one of the terminal states, none in the
\* state it was started with.
C34_RetryStageTerminates ==
    /\ InAttempt ~> RetryStageReturned
    /\ [](RetryStageReturned =>
            /\ Len(results) = Len(failed_rows)
            /\ \A k \in 1..Len(results) :
                 /\ results[k].final_status \in TerminalStatuses
                 /\ results[k].final_status # NewResult(failed_rows[k]).final_status
                 /\ results[k].attempts \in 1..MAX_RETRIES)

\* the stage has returned the results of two items, one of which used every
\* attempt and the other ended at its first
C34_Witness ==
    /\ RetryStageReturned
    /\ Len(results) = 2
    /\ results[1].final_status = "max_retries_reached"
    /\ results[2].final_status = "error"
    /\ results[2].attempts = MAX_RETRIES

\* C35: whenever the retry stage records success for an item, the row whose
\* text was re-read at the item's stored index is the row that the scan
\* classified failed for that item, not another row that has moved to the
\* index since.
C35_SuccessOnScannedRow ==
    [][(InAttempt /\ pc = "check" /\ LoggedNow = "success") =>
         /\ RowPosition <= Len(table)
         /\ table[RowPosition].id = failed_rows[item].row]_vars

\* C36: the attempts field of the RetryResult that retry_async or retry_sync
\* returns is the number of times the operation was invoked, when the loop
\* succeeded, when it used every attempt and when it stopped early at a
\* permanent fault.
C36_AttemptsAreInvocations ==
    (RetryLoopEnded /\ pc = "returned") => call.ret.attempts = call.tried

\* C37: in every run result handed to the notification sink the number of
\* failed items is at most the total item count, whatever the page shows to
\* the query that counts the total and also when that query raises.
C37_FailedWithinTotal ==
    \A k \in 1..Len(sends) :
        sends[k].kind = "report" =>
            IF entry = "main"
            THEN sends[k].card.failed <= sends[k].card.total_items
            ELSE sends[k].card.initial_failed <= sends[k].card.total_items

\* the MonitorResult check_status has returned to main
CheckStatusReturned == entry = "main" /\ pc = "report"

\* C38: in every result check_status returns, success is true exactly when
\* the error field is unset: a result with success false carries the message
\* of the failed login, the failed navigation or the uncaught fault, and a
\* result with success true carries none.
C38_SuccessIffNoError ==
    CheckStatusReturned => (run.success <=> run.error = NoError)

\* check_status has returned a result of a run whose navigation failed
C38_Witness ==
    /\ CheckStatusReturned
    /\ ~run.success
    /\ run.error = "Navigation failed"
    /\ "nav_failed" \in events

(***************************************************************************)
(* retry_sync and retry_async side by side: one configuration, one         *)
(* operation whose invocations have the same outcomes for both loops       *)
(***************************************************************************)

\* the loop of a side goes on with the outcome of the next invocation, if
\* it has not ended
SideStep(side, outcome) ==
    IF side.pc = "try" THEN LoopStep(side.call, outcome) ELSE side

\* with_retry's two wrappers (lines 311-316) entered with the same handler
RetryBothStart ==
    /\ entry = "retry" /\ pc = "idle"
    /\ call' = [op |-> "retry_both", outcomes |-> <<>>,
                sync |-> LoopStart("retry_sync"),
                async |-> LoopStart("retry_async")]
    /\ pc' = "both"
    /\ UNCHANGED loopFrame

\* the next invocation of the operation has the same outcome on both sides
RetryBothAttempt ==
    /\ entry = "retry" /\ pc = "both"
    /\ call.sync.pc = "try" \/ call.async.pc = "try"
    /\ \E outcome \in Faults \cup {NoFault} :
         call' = [call EXCEPT !.outcomes = Append(@, outcome),
                              !.sync = SideStep(@, outcome),
                              !.async = SideStep(@, outcome)]
    /\ UNCHANGED <<pc, loopFrame>>

NextRetryBoth == RetryBothStart \/ RetryBothAttempt

SpecRetryBoth == InitBackoff /\ [][NextRetryBoth]_vars

\* C39: retry_sync and retry_async are equivalent: with the same
\* configuration and the same outcomes of the operation's invocations both
\* have invoked the operation the same number of times, have slept the same
\* backoff delays and end alike, returning RetryResults with the same
\* success, attempts and error.
C39_SyncAsyncEquivalent ==
    call.op = "retry_both" =>
      /\ call.sync.call.tried = call.async.call.tried
      /\ call.sync.call.delays = call.async.call.delays
      /\ call.sync.pc = call.async.pc
      /\ call.sync.call.ret = call.async.call.ret

====
